---- MODULE Spec2Model ----
(***************************************************************************)
(* Model of the AdmiralBet collectors (LiveFeedService, PreGamesService),  *)
(* their storage gateway (DataStorageService over RedisService and local   *)
(* JSON files), and the two bounded-concurrency helpers of                 *)
(* PreGamesService (fetchPagesConcurrently, processBatchWithConcurrency).  *)
(*                                                                         *)
(* One collector instance is modelled at a time; `kind` says which service *)
(* it is.  A handler is split only at the awaits where Node can run        *)
(* another macrotask (an HTTP or Redis round trip); awaits of functions    *)
(* that do synchronous work only (the fs calls of file mode) do not        *)
(* yield to other handlers and stay inside one action.                     *)
(*                                                                         *)
(* Specifications: Spec (the life cycle of a collector and its gateway),   *)
(* SpecStart (Start under every argument pair, file mode), SpecData (one   *)
(* session with overlapping delta polls and odds), SpecHelpers (one call   *)
(* of either batch helper).                                                *)
(***************************************************************************)
EXTENDS Integers, Sequences, FiniteSets, Bags, TLC

\* ---------------------------------------------------------------- bounds
MaxId == 2          \* upstream event ids are 1..MaxId
MaxStarts == 2      \* valid Start calls in one behaviour (sessions)
MaxPolls == 1       \* delta polls in flight at once, life-cycle specifications
MaxOverlap == 2     \* delta polls in flight at once, SpecData
MaxPages == 4       \* totalPages handed to fetchPagesConcurrently
MaxTopN == 2        \* page size (topN) handed to fetchPagesConcurrently
MaxConcurrency == 4 \* concurrency handed to the two batch helpers
MaxItems == 5       \* items handed to processBatchWithConcurrency
MaxClock == 400     \* seconds the stream bootstrap is followed for

\* ------------------------------------------------------ program constants
ALLOWED_SPORTS == {"B", "T", "S"}

AllowedIntervalsBroken(k) == {1, 5, 15, 30, 60, 120}
AllowedIntervals(k) == IF k = "live" THEN {1, 15, 30, 60, 120} ELSE {120}

\* sportMapping of extractEventIds / processChangedEvents
sportMapping == [i \in {1, 2, 3} |-> IF i = 1 THEN "S" ELSE IF i = 2 THEN "B" ELSE "T"]

\* inputs a caller may hand to Start: the allow-lists plus one bad value each
IntervalInputs == {1, 5, 15, 30, 60, 120}
SportInputs == ALLOWED_SPORTS \cup {"X"}

Ids == 1..MaxId
NoTimer == 0        \* cacheUpdateTimer === undefined
NullToken == "null" \* lastDeltaCacheNumber === null

\* ------------------------------------------------------------ upstream data
\* One bet outcome as the normalizers read it: the bet's betTypeId and
\* betTypeName, the outcome's name, odd and betTypeOutcomeId.
Outcome(tid, tname, n, o, p) ==
    [betTypeId |-> tid, betTypeName |-> tname, name |-> n, odd |-> o, betTypeOutcomeId |-> p]

\* What fetchDetailedOddsForMatch yields when the request failed (null); a
\* fetched answer is [ok |-> TRUE, bets |-> the detailed bets].
NoDetail == [ok |-> FALSE, bets |-> << >>]

\* ------------------------------------------------------------- normalizers
Pick(o) == [oddValue |-> o.odd, betPickCode |-> o.betTypeOutcomeId]

\* A write that adds the new odd to the one the key holds.
PutAdding(odds, key, val) ==
    [k \in DOMAIN odds \cup {key} |->
        IF k # key THEN odds[k]
        ELSE IF key \in DOMAIN odds
        THEN [val EXCEPT !.oddValue = @ + odds[key].oddValue]
        ELSE val]
\* odds[key] = val
Put(odds, key, val) == [k \in DOMAIN odds \cup {key} |-> IF k = key THEN val ELSE odds[k]]

EmptyOdds == [k \in {} |-> 0]

\* outcome.sBV (outcome.sbv, t[2] of a changed outcome): "" when absent.
Line(o) == IF "sBV" \in DOMAIN o THEN o.sBV ELSE ""

\* name?.toLowerCase().includes(part), for the outcome names the upstream
\* is taken to use: "1", "X", "2", "GG", "NG", "Manje", "Vise", "Home",
\* "Draw", "Away", "Da", "Ne", a goal range such as "1-2", and "Q" for a
\* name no market knows.
Includes(name, part) ==
    \/ part = "manje" /\ name = "Manje"
    \/ part = "vise" /\ name = "Vise"
    \/ part = "home" /\ name = "Home"
    \/ part = "draw" /\ name = "Draw"
    \/ part = "away" /\ name = "Away"
    \/ part = "da" /\ name = "Da"
    \/ part = "ne" /\ name = "Ne"
    \/ part = name

\* A write of a line that starts the market's lines afresh.
PutLineAfresh(odds, key, sub, val) == Put(odds, key, Put(EmptyOdds, sub, val))
\* odds[key][sub] = val, odds[key] being created when absent.
PutLine(odds, key, sub, val) ==
    Put(odds, key, Put(IF key \in DOMAIN odds THEN odds[key] ELSE EmptyOdds, sub, val))

\* LiveFeedService.processBetOutcomes, one outcome: the markets keyed by
\* betTypeId 56, 6 and 22 and by betTypeName.
LiveOutcome(sport, odds, o) ==
    LET v == Pick(o)
        specialValue == Line(o)
    IN
    IF sport = "S" THEN
        IF o.betTypeId = 56 THEN
            IF o.name = "1" THEN Put(odds, "fullTimeResultHomeWin", v)
            ELSE IF o.name = "X" THEN Put(odds, "fullTimeResultDraw", v)
            ELSE IF o.name = "2" THEN Put(odds, "fullTimeResultAwayWin", v)
            ELSE odds
        ELSE IF o.betTypeId = 6 THEN
            IF o.name = "1" THEN Put(odds, "firstHalfResultHomeWin", v)
            ELSE IF o.name = "X" THEN Put(odds, "firstHalfResultDraw", v)
            ELSE IF o.name = "2" THEN Put(odds, "firstHalfResultAwayWin", v)
            ELSE odds
        ELSE IF o.betTypeId = 22 THEN
            IF specialValue = "" THEN odds
            ELSE IF Includes(o.name, "manje")
            THEN PutLine(odds, "fullTimeUnderTotal", "FT_" \o specialValue, v)
            ELSE IF Includes(o.name, "vise")
            THEN PutLine(odds, "fullTimeOverTotal", "FT_" \o specialValue, v)
            ELSE odds
        ELSE IF o.betTypeName = "1.pol - Ukupno" THEN
            IF specialValue = "" THEN odds
            ELSE IF Includes(o.name, "manje")
            THEN PutLine(odds, "firstHalfUnderTotal", "1H_" \o specialValue, v)
            ELSE IF Includes(o.name, "vise")
            THEN PutLine(odds, "firstHalfOverTotal", "1H_" \o specialValue, v)
            ELSE odds
        ELSE IF o.betTypeName = "Oba tima daju gol" THEN
            IF o.name = "GG" \/ Includes(o.name, "da") THEN Put(odds, "bothTeamsToScore", v)
            ELSE IF o.name = "NG" \/ Includes(o.name, "ne")
            THEN Put(odds, "oneTeamNotToScore", v)
            ELSE odds
        ELSE odds
    ELSE IF sport = "B" THEN
        IF o.betTypeId = 56 THEN
            IF o.name = "1" THEN Put(odds, "basketballFTOT1", v)
            ELSE IF o.name = "2" THEN Put(odds, "basketballFTOT2", v)
            ELSE odds
        ELSE odds
    ELSE IF sport = "T" THEN
        IF o.betTypeId = 56 THEN
            IF o.name = "1" THEN Put(odds, "tennisHomeWins", v)
            ELSE IF o.name = "2" THEN Put(odds, "tennisAwayWins", v)
            ELSE odds
        ELSE IF o.betTypeName = "Pobednik seta" THEN
            IF specialValue = "1" THEN
                IF o.name = "1" THEN Put(odds, "tennisHomeWinsFirstSet", v)
                ELSE IF o.name = "2" THEN Put(odds, "tennisAwayWinsFirstSet", v)
                ELSE odds
            ELSE IF specialValue = "2" THEN
                IF o.name = "1" THEN Put(odds, "tennisHomeWinsSecondSet", v)
                ELSE IF o.name = "2" THEN Put(odds, "tennisAwayWinsSecondSet", v)
                ELSE odds
            ELSE odds
        ELSE odds
    ELSE odds

\* The 'Broj golova' outcome of both pre-match paths: the first goal range,
\* in the order of the tests, that the outcome name includes.
BrojGolova(odds, name, val) ==
    LET ranges == <<<<"1-2", "oneToTwoGoals">>, <<"1-3", "oneToThreeGoals">>,
                    <<"1-4", "oneToFourGoals">>, <<"2-3", "twoOrThreeGoals">>,
                    <<"2-4", "twoToFourGoals">>, <<"3-4", "threeToFourGoals">>,
                    <<"3-5", "threeToFiveGoals">>, <<"4-5", "fourToFiveGoals">>,
                    <<"4-6", "fourToSixGoals">>, <<"0-2", "zeroToTwoGoals">>>>
        hits == {i \in DOMAIN ranges : Includes(name, ranges[i][1])}
    IN IF hits = {} THEN odds
       ELSE Put(odds, ranges[CHOOSE i \in hits : \A j \in hits : i <= j][2], val)

\* PreGamesService.processAdmiralBet{Football,,Tennis}Event, one outcome:
\* the markets keyed by betTypeName.
PreOutcome(sport, odds, o) ==
    LET v == Pick(o)
        home == o.name = "1" \/ Includes(o.name, "home")
        draw == o.name = "X" \/ Includes(o.name, "draw")
        away == o.name = "2" \/ Includes(o.name, "away")
    IN
    IF sport = "S" THEN
        IF o.betTypeName = "Konacan ishod" THEN
            IF home THEN Put(odds, "fullTimeResultHomeWin", v)
            ELSE IF draw THEN Put(odds, "fullTimeResultDraw", v)
            ELSE IF away THEN Put(odds, "fullTimeResultAwayWin", v)
            ELSE odds
        ELSE IF o.betTypeName = "1.pol - 1X2" THEN
            IF home THEN Put(odds, "firstHalfResultHomeWin", v)
            ELSE IF draw THEN Put(odds, "firstHalfResultDraw", v)
            ELSE IF away THEN Put(odds, "firstHalfResultAwayWin", v)
            ELSE odds
        ELSE IF o.betTypeName = "Broj golova" THEN BrojGolova(odds, o.name, v)
        ELSE IF o.betTypeName = "Oba tima daju gol" THEN
            IF o.name = "GG" \/ Includes(o.name, "da") THEN Put(odds, "bothTeamsToScore", v)
            ELSE IF o.name = "NG" \/ Includes(o.name, "ne")
            THEN Put(odds, "oneTeamNotToScore", v)
            ELSE odds
        ELSE IF o.betTypeName = "1.pol - Ukupno golova" THEN
            LET specialValue == IF Line(o) = "" THEN "0.5" ELSE Line(o) IN
            IF Includes(o.name, "manje")
            THEN PutLine(odds, "firstHalfUnderTotal", specialValue, v)
            ELSE IF Includes(o.name, "vise")
            THEN PutLine(odds, "firstHalfOverTotal", specialValue, v)
            ELSE odds
        ELSE IF o.betTypeName = "Ukupno golova" THEN
            LET specialValue == IF Line(o) = "" THEN "2.5" ELSE Line(o) IN
            IF Includes(o.name, "manje")
            THEN PutLine(odds, "fullTimeUnderTotal", specialValue, v)
            ELSE IF Includes(o.name, "vise")
            THEN PutLine(odds, "fullTimeOverTotal", specialValue, v)
            ELSE odds
        ELSE odds
    ELSE IF sport = "B" THEN
        IF o.betTypeName = "Pobednik" THEN
            IF home THEN Put(odds, "basketballFTOT1", v)
            ELSE IF away THEN Put(odds, "basketballFTOT2", v)
            ELSE odds
        ELSE odds
    ELSE IF o.betTypeName = "Pobednik" THEN
        IF home THEN Put(odds, "tennisHomeWins", v)
        ELSE IF away THEN Put(odds, "tennisAwayWins", v)
        ELSE odds
    ELSE IF o.betTypeName = "1.set - Pobednik" THEN
        IF home THEN Put(odds, "tennisHomeWinsFirstSet", v)
        ELSE IF away THEN Put(odds, "tennisAwayWinsFirstSet", v)
        ELSE odds
    ELSE odds

\* A normalization that keeps an outcome no market knows under a key of its own.
RECURSIVE NormalizeKeepingUnknown(_, _, _, _)
NormalizeKeepingUnknown(k, sport, bets, odds) ==
    IF bets = << >> THEN odds
    ELSE LET next == IF k = "live" THEN LiveOutcome(sport, odds, Head(bets))
                     ELSE PreOutcome(sport, odds, Head(bets))
         IN NormalizeKeepingUnknown(k, sport, Tail(bets),
                IF next = odds THEN Put(odds, "unknown", Pick(Head(bets))) ELSE next)

RECURSIVE Normalize(_, _, _, _)
Normalize(k, sport, bets, odds) ==
    IF bets = << >> THEN odds
    ELSE Normalize(k, sport, Tail(bets),
                   IF k = "live" THEN LiveOutcome(sport, odds, Head(bets))
                   ELSE PreOutcome(sport, odds, Head(bets)))

\* updateMatchOdds of service k: one changed outcome applied to the odds of
\* a stored match, keyed by the match's sport, the bet type name, the
\* outcome name and the special value.
updateMatchOdds(k, sport, odds, o) ==
    LET v == [oddValue |-> o.newValue, betPickCode |-> o.betTypeOutcomeId]
        specialValue == Line(o)
        FT == IF k = "live" THEN "FT_" \o specialValue ELSE specialValue
        H1 == IF k = "live" THEN "1H_" \o specialValue ELSE specialValue
    IN
    IF sport = "B" THEN
        IF o.betTypeName = "Pobednik" THEN
            IF o.outcomeName = "1" THEN Put(odds, "basketballFTOT1", v)
            ELSE IF o.outcomeName = "2" THEN Put(odds, "basketballFTOT2", v)
            ELSE odds
        ELSE odds
    ELSE IF sport = "T" THEN
        IF o.betTypeName = "Pobednik" THEN
            IF o.outcomeName = "1" THEN Put(odds, "tennisHomeWins", v)
            ELSE IF o.outcomeName = "2" THEN Put(odds, "tennisAwayWins", v)
            ELSE odds
        ELSE IF k = "live" /\ o.betTypeName = "Pobednik seta" THEN
            IF specialValue = "1" THEN
                IF o.outcomeName = "1" THEN Put(odds, "tennisHomeWinsFirstSet", v)
                ELSE IF o.outcomeName = "2" THEN Put(odds, "tennisAwayWinsFirstSet", v)
                ELSE odds
            ELSE IF specialValue = "2" THEN
                IF o.outcomeName = "1" THEN Put(odds, "tennisHomeWinsSecondSet", v)
                ELSE IF o.outcomeName = "2" THEN Put(odds, "tennisAwayWinsSecondSet", v)
                ELSE odds
            ELSE odds
        ELSE IF k = "pre" /\ o.betTypeName = "1.set - Pobednik" THEN
            IF o.outcomeName = "1" THEN Put(odds, "tennisHomeWinsFirstSet", v)
            ELSE IF o.outcomeName = "2" THEN Put(odds, "tennisAwayWinsFirstSet", v)
            ELSE odds
        ELSE odds
    ELSE IF sport = "S" THEN
        IF o.betTypeName = "Konacan ishod" THEN
            IF o.outcomeName = "1" THEN Put(odds, "fullTimeResultHomeWin", v)
            ELSE IF o.outcomeName = "X" THEN Put(odds, "fullTimeResultDraw", v)
            ELSE IF o.outcomeName = "2" THEN Put(odds, "fullTimeResultAwayWin", v)
            ELSE odds
        ELSE IF o.betTypeName = "1.pol - 1X2" THEN
            IF o.outcomeName = "1" THEN Put(odds, "firstHalfResultHomeWin", v)
            ELSE IF o.outcomeName = "X" THEN Put(odds, "firstHalfResultDraw", v)
            ELSE IF o.outcomeName = "2" THEN Put(odds, "firstHalfResultAwayWin", v)
            ELSE odds
        ELSE IF k = "pre" /\ o.betTypeName = "Broj golova"
        THEN BrojGolova(odds, o.outcomeName, v)
        ELSE IF o.betTypeName = "Ukupno golova" THEN
            IF specialValue = "" THEN odds
            ELSE IF Includes(o.outcomeName, "manje")
            THEN PutLine(odds, "fullTimeUnderTotal", FT, v)
            ELSE IF Includes(o.outcomeName, "vise")
            THEN PutLine(odds, "fullTimeOverTotal", FT, v)
            ELSE odds
        ELSE IF o.betTypeName = (IF k = "live" THEN "1.p - Ukupno" ELSE "1.pol - Ukupno golova")
        THEN
            IF specialValue = "" THEN odds
            ELSE IF Includes(o.outcomeName, "manje")
            THEN PutLine(odds, "firstHalfUnderTotal", H1, v)
            ELSE IF Includes(o.outcomeName, "vise")
            THEN PutLine(odds, "firstHalfOverTotal", H1, v)
            ELSE odds
        ELSE IF o.betTypeName = "Oba tima daju gol" THEN
            IF o.outcomeName = "GG" \/ Includes(o.outcomeName, "da")
            THEN Put(odds, "bothTeamsToScore", v)
            ELSE IF o.outcomeName = "NG" \/ Includes(o.outcomeName, "ne")
            THEN Put(odds, "oneTeamNotToScore", v)
            ELSE odds
        ELSE odds
    ELSE odds

\* ------------------------------------------------------------------ state
VARIABLES
    kind,                  \* "live" (LiveFeedService) or "pre" (PreGamesService)
    isRunning,             \* config.isRunning
    collectionInterval,    \* config.collectionInterval
    selectedSport,         \* config.selectedSport
    matches,               \* config.matches: id -> [sport, odds, sess]
    lastDeltaCacheNumber,  \* the delta token
    cacheUpdateTimer,      \* NoTimer, or the period (ms) of the setInterval
    activeTimers,          \* the setInterval timers created and not cleared
    clearing,              \* Start handlers awaiting clearData()
    boots,                 \* bag of initial collections in flight
    polls,                 \* bag of updateCacheChanges calls in flight
    initPc,                \* DataStorageService.initialize: "pending", "ok", "failed"
    redisAvailable,        \* DataStorageService.redisAvailable
    storageType,           \* DataStorageService.storageType
    isConnected,           \* RedisService.isConnected
    connectionFailed,      \* RedisService.connectionFailed
    redisKeys,             \* the <matchesKey>:<id> hashes: id string -> hash
    redisIndex,            \* the <matchesKey>:index set of id strings
    redisExpiry,           \* the keys with an expiry: id string, "index" or
                           \* "metadata" -> seconds
    feedFile,              \* data/live-feed-data.json or data/pre-games-data.json
    dataFile,              \* this.filePath (data/football-live-feed-data.json)
    startResult,           \* history: how the last Start call returned ("none",
                           \* "started", "alreadyRunning", "InvalidArgument")
    session,               \* history: number of valid Starts so far
    clearedFor,            \* history: last session whose storage clear succeeded
    flushed,               \* history: the last step wrote a snapshot
    lastBackend,           \* history: the backend of the last snapshot write or clear
    launched,              \* history: initial collections launched so far
    tokenSess,             \* history: the session whose poll obtained the delta token
                           \* (0 while the token is null)
    writable,              \* environment: the storage backends accept writes
    flushFailed,           \* history: the last step's snapshot write threw
    pollFailed,            \* history: the last step was a delta poll whose request failed
    everFailed,            \* history: some snapshot write has thrown
    saving,                \* a RedisService.saveMatches call followed write by write
    peerSaved,             \* the hashes the other collector has saved to the cache
    stream,                \* the stream bootstrap: END timestamp, clock, resume cursor
    probe,                 \* one bet outcome put through both normalization paths
    \* fetchPagesConcurrently
    pgPc,                  \* "idle", "batch" (awaiting allSettled), "delay", "done"
    pgTotal, pgTopN, pgConc,   \* the arguments totalPages, topN, concurrency
    pgCurrent,             \* currentPage
    pgBatch,               \* this batch: page -> "pending", or the page's answer
    pgAll,                 \* allEvents, an item being <<page, index>>
    pgAnswers,             \* history: page -> what the upstream answered
    pgRequested,           \* history: page -> number of requests sent

    \* processBatchWithConcurrency
    bcPc,                  \* "idle", "batch" (awaiting allSettled), "delay", "done"
    bcItems, bcConc,       \* the arguments: items 1..bcItems, concurrency
    bcI,                   \* the loop index i (0-based)
    bcBatch,               \* this batch: item -> "pending", "fulfilled", "rejected"
    bcResults,             \* results
    bcCalls                \* history: item -> times handed to the processor

collectorVars ==
    <<kind, isRunning, collectionInterval, selectedSport, matches, lastDeltaCacheNumber,
      cacheUpdateTimer, activeTimers, clearing, boots, polls, startResult, session, launched, tokenSess>>
gatewayVars == <<initPc, redisAvailable, storageType, isConnected, connectionFailed>>
storeVars ==
    <<redisKeys, redisIndex, redisExpiry, feedFile, dataFile, clearedFor, flushed,
      lastBackend, writable, flushFailed, pollFailed, everFailed, saving, peerSaved>>
pureVars == <<stream, probe>>
pageVars ==
    <<pgPc, pgTotal, pgTopN, pgConc, pgCurrent, pgBatch, pgAll, pgAnswers, pgRequested>>
batchVars == <<bcPc, bcItems, bcConc, bcI, bcBatch, bcResults, bcCalls>>
vars == <<collectorVars, gatewayVars, storeVars, pageVars, batchVars, pureVars>>

NoFile == [absent |-> TRUE]    \* fs.existsSync(path) is false
NoMatches == [i \in {} |-> 0]

\* No saveMatches call is being followed.
NotSaving == [pc |-> "idle", todo |-> << >>, started |-> NoMatches, written |-> NoMatches]

\* ------------------------------------------------------ storage gateway
\* RedisService.isRedisConnected
IsRedisConnected == isConnected /\ ~connectionFailed

\* The test every DataStorageService operation makes to pick its backend.
UseRedis == redisAvailable /\ IsRedisConnected

\* RedisService.safeToString of a match id, and parseInt back.
Digits == <<"0", "1", "2", "3", "4", "5", "6", "7", "8", "9">>
safeToString(n) == Digits[n + 1]
parseInt(str) == (CHOOSE i \in 1..10 : Digits[i] = str) - 1

\* JSON.stringify / JSON.parse of a match's bets: the text is modelled as
\* the set of its key/value members.
Stringify(odds) == {<<k, odds[k]>> : k \in DOMAIN odds}
Parse(text) == [k \in {m[1] : m \in text} |-> (CHOOSE m \in text : m[1] = k)[2]]

\* Array.from(config.matches.values()), in ascending id order.
RECURSIVE ValuesFrom(_, _)
ValuesFrom(ms, i) ==
    IF i > MaxId + 1 THEN << >>
    ELSE IF i \in DOMAIN ms
         THEN <<[id |-> i, sport |-> ms[i].sport, odds |-> ms[i].odds, sess |-> ms[i].sess,
                 info |-> ms[i].info]>>
              \o ValuesFrom(ms, i + 1)
         ELSE ValuesFrom(ms, i + 1)
Values(ms) == ValuesFrom(ms, 1)

\* saveLiveFeedToFile / savePreGamesToFile: read-merge-write by match id.
\* A file is its matches array and its totalMatches.
FindIndex(arr, id) ==
    IF \E j \in 1..Len(arr) : arr[j].id = id
    THEN CHOOSE j \in 1..Len(arr) : arr[j].id = id /\ \A h \in 1..(j - 1) : arr[h].id # id
    ELSE 0

RECURSIVE MergeIntoAppending(_, _)
MergeIntoAppending(arr, list) ==
    IF list = << >> THEN arr
    ELSE MergeIntoAppending(Append(arr, Head(list)), Tail(list))

RECURSIVE MergeInto(_, _)
MergeInto(arr, list) ==
    IF list = << >> THEN arr
    ELSE LET m == Head(list)
             j == FindIndex(arr, m.id)
         IN MergeInto(IF j > 0 THEN [arr EXCEPT ![j] = m] ELSE Append(arr, m), Tail(list))

SaveToFile(file, ms) ==
    LET merged == MergeInto(IF file = NoFile THEN << >> ELSE file.matches, Values(ms))
    IN [matches |-> merged, totalMatches |-> Len(merged)]

\* RedisService.saveMatches: one hash per match, then the index set.
HashOf(m) == [id |-> safeToString(m.id), sport |-> m.sport, bets |-> Stringify(m.odds),
              sess |-> m.sess, info |-> m.info]
SaveHashes(keys, ms) ==
    [k \in DOMAIN keys \cup {safeToString(i) : i \in DOMAIN ms} |->
        IF \E i \in DOMAIN ms : safeToString(i) = k
        THEN LET i == CHOOSE i \in DOMAIN ms : safeToString(i) = k
             IN HashOf([id |-> i, sport |-> ms[i].sport, odds |-> ms[i].odds,
                        sess |-> ms[i].sess, info |-> ms[i].info])
        ELSE keys[k]]
SaveIndex(index, ms) == index \cup {safeToString(i) : i \in DOMAIN ms}

\* The expire calls of a cache-mode save: saveMatches after the hSet of each
\* match, saveMetadata after its hSet; none follows the sAdd of the index.
Ttl == 86400
SaveExpiry(expiry, keys) ==
    [k \in DOMAIN expiry \cup keys |-> IF k \in keys THEN Ttl ELSE expiry[k]]

\* RedisService.getMatches: the hashes the index names.
GetMatches ==
    LET found == {k \in redisIndex : k \in DOMAIN redisKeys} IN
    [i \in {parseInt(redisKeys[k].id) : k \in found} |->
        LET k == CHOOSE k \in found : parseInt(redisKeys[k].id) = i
        IN [sport |-> redisKeys[k].sport, odds |-> Parse(redisKeys[k].bets),
            sess |-> redisKeys[k].sess, info |-> redisKeys[k].info]]

\* The matches of a JSON file's matches array, by id.
FileMatches(file) ==
    IF file = NoFile THEN NoMatches
    ELSE LET arr == file.matches IN
         [i \in {arr[j].id : j \in 1..Len(arr)} |->
            LET j == CHOOSE j \in 1..Len(arr) : arr[j].id = i
            IN [sport |-> arr[j].sport, odds |-> arr[j].odds, sess |-> arr[j].sess,
                info |-> arr[j].info]]

\* DataStorageService.getFromFile: reads this.filePath; null when absent.
GetFromFile ==
    IF dataFile = NoFile THEN [isNull |-> TRUE, matches |-> NoMatches]
    ELSE [isNull |-> FALSE, matches |-> FileMatches(dataFile)]

\* DataStorageService.getData
GetData == IF UseRedis THEN [isNull |-> FALSE, matches |-> GetMatches] ELSE GetFromFile

\* The snapshot the collector's flushes write to, on the active backend.
PersistedSnapshot == IF UseRedis THEN GetMatches ELSE FileMatches(feedFile)

\* The persisted state as one value, so that a handler that saves twice in
\* one uninterrupted run can be written as a composition.
Store ==
    [redisKeys |-> redisKeys, redisIndex |-> redisIndex, redisExpiry |-> redisExpiry,
     feedFile |-> feedFile,
     flushed |-> FALSE, flushFailed |-> FALSE, pollFailed |-> FALSE,
     lastBackend |-> lastBackend]

\* saveProcessedData that makes no further attempt once a write has failed.
saveProcessedDataGivingUp(st, ms) ==
    IF DOMAIN ms = {} \/ everFailed THEN st
    ELSE IF ~writable THEN [st EXCEPT !.flushed = FALSE, !.flushFailed = TRUE]
    ELSE IF UseRedis THEN
        [st EXCEPT !.redisKeys = SaveHashes(st.redisKeys, ms),
                   !.redisIndex = SaveIndex(st.redisIndex, ms),
                   !.redisExpiry =
                        SaveExpiry(@, {safeToString(i) : i \in DOMAIN ms} \cup {"metadata"}),
                   !.flushed = TRUE, !.flushFailed = FALSE, !.lastBackend = "redis"]
    ELSE
        [st EXCEPT !.feedFile = SaveToFile(st.feedFile, ms),
                   !.flushed = TRUE, !.flushFailed = FALSE, !.lastBackend = "file"]

\* saveProcessedData: nothing when the store is empty, else a snapshot
\* write of the whole store to the active backend.  A write the backend
\* refuses throws before anything is stored; the catch logs it.
saveProcessedData(st, ms) ==
    IF DOMAIN ms = {} THEN st
    ELSE IF ~writable THEN [st EXCEPT !.flushed = FALSE, !.flushFailed = TRUE]
    ELSE IF UseRedis THEN
        [st EXCEPT !.redisKeys = SaveHashes(st.redisKeys, ms),
                   !.redisIndex = SaveIndex(st.redisIndex, ms),
                   !.redisExpiry =
                        SaveExpiry(@, {safeToString(i) : i \in DOMAIN ms} \cup {"metadata"}),
                   !.flushed = TRUE, !.flushFailed = FALSE, !.lastBackend = "redis"]
    ELSE
        [st EXCEPT !.feedFile = SaveToFile(st.feedFile, ms),
                   !.flushed = TRUE, !.flushFailed = FALSE, !.lastBackend = "file"]

Commit(st) ==
    /\ redisKeys' = st.redisKeys
    /\ redisIndex' = st.redisIndex
    /\ redisExpiry' = st.redisExpiry
    /\ feedFile' = st.feedFile
    /\ flushed' = st.flushed
    /\ lastBackend' = st.lastBackend
    /\ flushFailed' = st.flushFailed
    /\ pollFailed' = st.pollFailed
    /\ everFailed' = (everFailed \/ st.flushFailed)
    /\ UNCHANGED <<writable, saving, peerSaved, pureVars>>

NoFlush == Commit(Store)

\* ------------------------------------------------ collector: Start / Stop
DefaultInterval(k) == IF k = "live" THEN 30 ELSE 120

Task(pc, branch, data) == [pc |-> pc, branch |-> branch, data |-> data]

\* The first await of collectLiveFeedData / collectPreGamesData.  The
\* pre-match collection picks its per-sport routine from selectedSport
\* before that await; the live one reads selectedSport as it goes.
FirstTask(sport) ==
    IF kind = "live" THEN Task("tree", "live", << >>)
    ELSE Task("catalog", sport, << >>)

Launch(sport) ==
    /\ boots' = boots (+) SetToBag({FirstTask(sport)})
    /\ launched' = launched + 1

\* startCacheUpdates: the period of the setInterval.
Period(k, interval) ==
    IF k = "pre" THEN 5000
    ELSE IF interval = 1 THEN 1000
    ELSE IF interval <= 15 THEN 2000
    ELSE IF interval <= 30 THEN 5000
    ELSE 10000

startCacheUpdatesUnguarded ==
    /\ cacheUpdateTimer' = Period(kind, collectionInterval)
    /\ activeTimers' = activeTimers + 1
startCacheUpdates ==
    IF cacheUpdateTimer # NoTimer THEN UNCHANGED <<cacheUpdateTimer, activeTimers>>
    ELSE /\ cacheUpdateTimer' = Period(kind, collectionInterval)
         /\ activeTimers' = activeTimers + 1

\* The first test of startLiveFeed / startPreGames: already running.
AlreadyRunningNever == FALSE
AlreadyRunning == isRunning

\* startLiveFeed / startPreGames up to the await of clearData().  A running
\* collector logs and returns; an invalid argument throws.  In file mode
\* clearData() is synchronous work (clearFileData unlinks this.filePath),
\* so the handler runs on to launch the initial collection.
Start(interval, sport) ==
    /\ UNCHANGED <<kind, gatewayVars, pageVars, batchVars>>
    /\ IF AlreadyRunning THEN
           /\ startResult' = "alreadyRunning"
           /\ NoFlush
           /\ UNCHANGED <<isRunning, collectionInterval, selectedSport, matches,
                          lastDeltaCacheNumber, tokenSess, cacheUpdateTimer, activeTimers, clearing,
                          boots, polls, session, launched, dataFile, clearedFor>>
       ELSE IF ~(sport \in ALLOWED_SPORTS /\ interval \in AllowedIntervals(kind)) THEN
           /\ startResult' = "InvalidArgument"
           /\ NoFlush
           /\ UNCHANGED <<isRunning, collectionInterval, selectedSport, matches,
                          lastDeltaCacheNumber, tokenSess, cacheUpdateTimer, activeTimers, clearing,
                          boots, polls, session, launched, dataFile, clearedFor>>
       ELSE
           /\ session < MaxStarts
           /\ startResult' = "started"
           /\ isRunning' = TRUE
           /\ collectionInterval' = interval
           /\ selectedSport' = sport
           /\ matches' = NoMatches
           /\ session' = session + 1
           /\ UNCHANGED <<lastDeltaCacheNumber, tokenSess, cacheUpdateTimer, activeTimers, polls>>
           /\ IF UseRedis THEN
                  /\ clearing' = clearing \cup {session + 1}
                  /\ NoFlush
                  /\ UNCHANGED <<boots, launched, dataFile, clearedFor>>
              ELSE
                  /\ dataFile' = NoFile
                  /\ clearedFor' = session + 1
                  /\ Commit([Store EXCEPT !.lastBackend = "file"])
                  /\ Launch(sport)
                  /\ UNCHANGED clearing

\* A Start handler that gives up when clearAllData() has thrown.
StartClearedGivingUp(n) ==
    /\ n \in clearing
    /\ clearing' = clearing \ {n}
    /\ IF IsRedisConnected THEN
           /\ Commit([Store EXCEPT !.redisKeys = NoMatches, !.redisIndex = {},
                                   !.redisExpiry = NoMatches,
                                   !.lastBackend = "redis"])
           /\ clearedFor' = n
       ELSE
           /\ NoFlush
           /\ UNCHANGED clearedFor
    /\ IF IsRedisConnected THEN Launch(selectedSport) ELSE UNCHANGED <<boots, launched>>
    /\ UNCHANGED <<kind, isRunning, collectionInterval, selectedSport, matches,
                   lastDeltaCacheNumber, tokenSess, cacheUpdateTimer, activeTimers, polls, startResult,
                   session, dataFile, gatewayVars, pageVars, batchVars>>

\* The rest of the Start handler in cache mode: clearAllData() has deleted
\* every <matchesKey>:* key (the index is one of them) and the metadata, or
\* it has thrown because the connection failed meanwhile; either way the
\* initial collection is launched.
StartCleared(n) ==
    /\ n \in clearing
    /\ clearing' = clearing \ {n}
    /\ IF IsRedisConnected THEN
           /\ Commit([Store EXCEPT !.redisKeys = NoMatches, !.redisIndex = {},
                                   !.redisExpiry = NoMatches,
                                   !.lastBackend = "redis"])
           /\ clearedFor' = n
       ELSE
           /\ NoFlush
           /\ UNCHANGED clearedFor
    /\ Launch(selectedSport)
    /\ UNCHANGED <<kind, isRunning, collectionInterval, selectedSport, matches,
                   lastDeltaCacheNumber, tokenSess, cacheUpdateTimer, activeTimers, polls, startResult,
                   session, dataFile, gatewayVars, pageVars, batchVars>>

\* stopLiveFeed / stopPreGames without the call of saveProcessedData.
StopWithoutFlush ==
    /\ UNCHANGED <<kind, collectionInterval, selectedSport, matches, clearing, boots,
                   polls, startResult, session, launched, dataFile, clearedFor,
                   gatewayVars, pageVars, batchVars>>
    /\ NoFlush
    /\ IF ~isRunning THEN
           UNCHANGED <<isRunning, cacheUpdateTimer, activeTimers, lastDeltaCacheNumber, tokenSess>>
       ELSE
           /\ isRunning' = FALSE
           /\ cacheUpdateTimer' = NoTimer
    /\ activeTimers' = (IF cacheUpdateTimer # NoTimer THEN activeTimers - 1 ELSE activeTimers)
           /\ activeTimers' = (IF cacheUpdateTimer # NoTimer THEN activeTimers - 1 ELSE activeTimers)
           /\ lastDeltaCacheNumber' = NullToken
           /\ tokenSess' = 0
\* stopLiveFeed / stopPreGames
Stop ==
    /\ UNCHANGED <<kind, collectionInterval, selectedSport, matches, clearing, boots,
                   polls, startResult, session, launched, dataFile, clearedFor,
                   gatewayVars, pageVars, batchVars>>
    /\ IF ~isRunning THEN
           /\ NoFlush
           /\ UNCHANGED <<isRunning, cacheUpdateTimer, activeTimers, lastDeltaCacheNumber, tokenSess>>
       ELSE
           /\ isRunning' = FALSE
           /\ cacheUpdateTimer' = NoTimer
    /\ activeTimers' = (IF cacheUpdateTimer # NoTimer THEN activeTimers - 1 ELSE activeTimers)
           /\ activeTimers' = (IF cacheUpdateTimer # NoTimer THEN activeTimers - 1 ELSE activeTimers)
           /\ lastDeltaCacheNumber' = NullToken
           /\ tokenSess' = 0
           /\ Commit(saveProcessedData(Store, matches))

\* ------------------------------------------- collector: initial collection
Eligible(e, sport) == sportMapping[e.sportId] = sport /\ e.isPlayable

\* extractEventIds
RECURSIVE extractEventIds(_, _)
extractEventIds(tree, sport) ==
    IF tree = << >> THEN << >>
    ELSE (IF Eligible(Head(tree), sport) THEN <<Head(tree).id>> ELSE << >>)
         \o extractEventIds(Tail(tree), sport)

\* this.config.matches.set(event.id, processedMatch): the stored record is
\* built from the event alone.  info stands for the fields a changed-event
\* record refreshes: status, and league for home, away, league and
\* kickOffTime; the events of the initial lists carry status 0 and league
\* "L0".
SetMatch(ms, id, sport, odds) ==
    [i \in DOMAIN ms \cup {id} |->
        IF i = id
        THEN [sport |-> sport, odds |-> odds, sess |-> session,
              info |-> [status |-> 0, league |-> "L0"]]
        ELSE ms[i]]

\* processLiveEvents: processLiveEvent for every eligible event of the tree.
RECURSIVE processLiveEvents(_, _, _)
processLiveEvents(ms, tree, sport) ==
    IF tree = << >> THEN ms
    ELSE LET e == Head(tree) IN
         processLiveEvents(
            IF Eligible(e, sport)
            THEN SetMatch(ms, e.id, sport, Normalize("live", sport, e.bets, EmptyOdds))
            ELSE ms,
            Tail(tree), sport)

\* The loop of collectAdmiralBet*Data over the batch results: the bets come
\* from the detailed odds when they were fetched, else from the event.
RECURSIVE processPreEvents(_, _, _, _)
processPreEvents(ms, events, details, branch) ==
    IF events = << >> THEN ms
    ELSE LET e == Head(events)
             bets == IF Head(details).ok THEN Head(details).bets ELSE e.bets
         IN processPreEvents(
                SetMatch(ms, e.id, branch, Normalize("pre", branch, bets, EmptyOdds)),
                Tail(events), Tail(details), branch)

Retire(t) == boots' = boots (-) SetToBag({t})
Move(t, u) == boots' = (boots (-) SetToBag({t})) (+) SetToBag({u})

bootFrame ==
    UNCHANGED <<kind, isRunning, collectionInterval, selectedSport, lastDeltaCacheNumber,
                tokenSess, clearing, polls, startResult, session, launched, dataFile, clearedFor,
                gatewayVars, pageVars, batchVars>>

\* collectLiveFeedData, from the answer of fetchLiveTreeData (a failed
\* request gives []) to the await of fetchLiveResults.
BootTree(t, tree) ==
    /\ t \in BagToSet(boots) /\ t.pc = "tree"
    /\ IF tree = << >> \/ extractEventIds(tree, selectedSport) = << >>
       THEN Retire(t)
       ELSE Move(t, Task("results", "live", tree))
    /\ NoFlush
    /\ UNCHANGED <<matches, cacheUpdateTimer, activeTimers>>
    /\ bootFrame

\* collectLiveFeedData, from the answer of fetchLiveResults: processLiveEvents
\* stores and saves; in cache mode the save is awaited before
\* startCacheUpdates runs.
BootResults(t) ==
    /\ t \in BagToSet(boots) /\ t.pc = "results"
    /\ matches' = processLiveEvents(matches, t.data, selectedSport)
    /\ Commit(saveProcessedData(Store, matches'))
    /\ IF UseRedis /\ DOMAIN matches' # {}
       THEN Move(t, Task("saved", "live", << >>)) /\ UNCHANGED <<cacheUpdateTimer, activeTimers>>
       ELSE Retire(t) /\ startCacheUpdates
    /\ bootFrame

\* collectPreGamesData, from the answer of fetch*Events (fetchPagesConcurrently
\* behind estimateTotalPages; failures give []): with no events the
\* per-sport routine returns and startCacheUpdates runs at once.
BootCatalog(t, events) ==
    /\ t \in BagToSet(boots) /\ t.pc = "catalog"
    /\ IF events = << >>
       THEN Retire(t) /\ startCacheUpdates
       ELSE Move(t, Task("details", t.branch, events)) /\ UNCHANGED <<cacheUpdateTimer, activeTimers>>
    /\ NoFlush
    /\ UNCHANGED matches
    /\ bootFrame

\* collectAdmiralBet*Data, from the answer of processBatchWithConcurrency
\* (one detailed-odds result per event, null when its request failed).
BootDetails(t, details) ==
    /\ t \in BagToSet(boots) /\ t.pc = "details"
    /\ Len(details) = Len(t.data)
    /\ matches' = processPreEvents(matches, t.data, details, t.branch)
    /\ Commit(saveProcessedData(Store, matches'))
    /\ IF UseRedis
       THEN Move(t, Task("saved", t.branch, << >>)) /\ UNCHANGED <<cacheUpdateTimer, activeTimers>>
       ELSE Retire(t) /\ startCacheUpdates
    /\ bootFrame

\* The awaited cache-mode save of the initial collection has resolved.
BootSaved(t) ==
    /\ t \in BagToSet(boots) /\ t.pc = "saved"
    /\ Retire(t)
    /\ startCacheUpdates
    /\ NoFlush
    /\ UNCHANGED matches
    /\ bootFrame

\* -------------------------------------------------- collector: delta polls
\* An answer of the changes endpoint is [token, changedEvents,
\* changedBetOutcomes]: a new token or "" (a falsy
\* maxDeltaCacheNumberAsString), the positional changedEvents records by the
\* fields the handler reads ([id, sportId, status, league, wellFormed]), and the
\* changedBetOutcomes records ([eventId, sportId, betTypeName, outcomeName,
\* newValue, betTypeOutcomeId, wellFormed]).  A call in flight carries, as
\* history, the session whose timer issued it.
Poll(pc, sess, events, outcomes) ==
    [pc |-> pc, sess |-> sess, events |-> events, outcomes |-> outcomes]

\* processChangedEvents skips a malformed record and a record of another
\* sport; a record whose id is not stored makes it await the detailed odds.
NeedsFetch(e, ms) ==
    e.wellFormed /\ sportMapping[e.sportId] = selectedSport /\ e.id \notin DOMAIN ms

\* The store once the loop has gone through the records before the first one
\* that needs a fetch.  The pre-match service refreshes a stored match from
\* the record (status always, a text field when the record's is not empty);
\* the live service has no branch for a stored match.
RECURSIVE PatchedUntilFetch(_, _)
PatchedUntilFetch(events, ms) ==
    IF events = << >> \/ NeedsFetch(Head(events), ms) THEN ms
    ELSE LET e == Head(events) IN
         PatchedUntilFetch(
            Tail(events),
            IF /\ kind = "pre" /\ e.wellFormed
               /\ sportMapping[e.sportId] = selectedSport /\ e.id \in DOMAIN ms
            THEN [ms EXCEPT ![e.id].info =
                    [status |-> e.status,
                     league |-> IF e.league # "" THEN e.league ELSE @.league]]
            ELSE ms)

\* The records of the loop from the first one that needs a fetch.
RECURSIVE FromFetch(_, _)
FromFetch(events, ms) ==
    IF events = << >> THEN << >>
    ELSE IF NeedsFetch(Head(events), ms) THEN events
    ELSE FromFetch(Tail(events), ms)

\* processChangedBetOutcomes: the loop over the outcome records.
RECURSIVE applyOutcomes(_, _)
applyOutcomes(ms, outcomes) ==
    IF outcomes = << >> THEN ms
    ELSE LET o == Head(outcomes) IN
         applyOutcomes(
            IF o.wellFormed /\ sportMapping[o.sportId] = selectedSport
               /\ o.eventId \in DOMAIN ms
            THEN [ms EXCEPT ![o.eventId].odds = updateMatchOdds(kind, ms[o.eventId].sport, @, o)]
            ELSE ms,
            Tail(outcomes))

\* The match a new changed event is stored as.  The live service builds the
\* event with bets: [] and does not read the detailed odds; the pre-match
\* service normalizes the detailed bets with the routine of the record's sport.
NewMatchOdds(e, detail) ==
    IF kind = "live" \/ ~detail.ok THEN EmptyOdds
    ELSE Normalize("pre", sportMapping[e.sportId], detail.bets, EmptyOdds)
NewMatchSport(e) == IF kind = "live" THEN selectedSport ELSE sportMapping[e.sportId]

pollFrame ==
    UNCHANGED <<kind, isRunning, collectionInterval, selectedSport, cacheUpdateTimer, activeTimers,
                clearing, boots, startResult, session, launched, dataFile, clearedFor,
                gatewayVars, pageVars, batchVars>>

\* The setInterval callback: updateCacheChanges up to the await of the POST,
\* with at most `most` calls in flight.
Tick(most) ==
    /\ cacheUpdateTimer # NoTimer
    /\ IF ~isRunning THEN UNCHANGED polls
       ELSE /\ BagCardinality(polls) < most
            /\ polls' = polls (+) SetToBag({Poll("post", session, << >>, << >>)})
    /\ NoFlush
    /\ UNCHANGED <<matches, lastDeltaCacheNumber, tokenSess>>
    /\ pollFrame

\* A catch of updateCacheChanges that starts over from the null token.
PollFailedResetting(p) ==
    /\ p \in BagToSet(polls) /\ p.pc = "post"
    /\ polls' = polls (-) SetToBag({p})
    /\ Commit([Store EXCEPT !.pollFailed = TRUE])
    /\ lastDeltaCacheNumber' = NullToken
    /\ tokenSess' = 0
    /\ UNCHANGED matches
    /\ pollFrame

\* The POST failed: the catch of updateCacheChanges logs it.
PollFailed(p) ==
    /\ p \in BagToSet(polls) /\ p.pc = "post"
    /\ polls' = polls (-) SetToBag({p})
    /\ Commit([Store EXCEPT !.pollFailed = TRUE])
    /\ UNCHANGED <<matches, lastDeltaCacheNumber, tokenSess>>
    /\ pollFrame

\* The tail of updateCacheChanges once processChangedEvents has gone through
\* its records with the store ms: its save (when there were records), then
\* processChangedBetOutcomes and its save.  In cache mode an awaited save
\* that writes lets other handlers run before the next part.
AfterEvents(p, ms, hadEvents, outcomes) ==
    LET st1 == IF hadEvents THEN saveProcessedData(Store, ms) ELSE Store
        yield1 == hadEvents /\ UseRedis /\ DOMAIN ms # {}
        ms2 == applyOutcomes(ms, outcomes)
    IN IF yield1 /\ outcomes # << >> THEN
           /\ matches' = ms
           /\ Commit(st1)
           /\ polls' = (polls (-) SetToBag({p})) (+) SetToBag({Poll("outcomes", p.sess, << >>, outcomes)})
       ELSE IF outcomes # << >> THEN
           /\ matches' = ms2
           /\ Commit(saveProcessedData(st1, ms2))
           /\ polls' = polls (-) SetToBag({p})
       ELSE
           /\ matches' = ms
           /\ Commit(st1)
           /\ polls' = polls (-) SetToBag({p})

\* The events loop from `events` on: either it awaits the detailed odds of
\* the first record that needs them, or it is through.
EventsLoop(p, ms, events, hadEvents, outcomes) ==
    LET rest == FromFetch(events, ms)
        patched == PatchedUntilFetch(events, ms)
    IN IF rest # << >> THEN
        /\ matches' = patched
        /\ NoFlush
        /\ polls' = (polls (-) SetToBag({p})) (+) SetToBag({Poll("detail", p.sess, rest, outcomes)})
       ELSE AfterEvents(p, patched, hadEvents, outcomes)

\* updateCacheChanges from the answer of the POST.
PollResponse(p, r) ==
    /\ p \in BagToSet(polls) /\ p.pc = "post"
    /\ lastDeltaCacheNumber' = IF r.token # "" THEN r.token ELSE lastDeltaCacheNumber
    /\ tokenSess' = IF r.token # "" THEN p.sess ELSE tokenSess
    /\ EventsLoop(p, matches, r.changedEvents, r.changedEvents # << >>, r.changedBetOutcomes)
    /\ pollFrame

\* processChangedEvents from the answer of fetchDetailedOddsForMatch (null
\* when the request failed): the new event is stored and the loop goes on.
PollDetail(p, detail) ==
    /\ p \in BagToSet(polls) /\ p.pc = "detail"
    /\ LET e == Head(p.events) IN
       EventsLoop(p, [SetMatch(matches, e.id, NewMatchSport(e), NewMatchOdds(e, detail))
                        EXCEPT ![e.id].info = [status |-> e.status, league |-> e.league]],
                  Tail(p.events), TRUE, p.outcomes)
    /\ UNCHANGED <<lastDeltaCacheNumber, tokenSess>>
    /\ pollFrame

\* updateCacheChanges after the awaited cache-mode save of processChangedEvents.
PollOutcomes(p) ==
    /\ p \in BagToSet(polls) /\ p.pc = "outcomes"
    /\ AfterEvents(p, matches, FALSE, p.outcomes)
    /\ UNCHANGED <<lastDeltaCacheNumber, tokenSess>>
    /\ pollFrame

\* ---------------------------------------------- gateway: initialize, errors
gatewayFrame ==
    /\ NoFlush
    /\ UNCHANGED <<collectorVars, dataFile, clearedFor, pageVars, batchVars>>

\* DataStorageService.initialize, connect() resolved: the client's 'connect'
\* handler has set isConnected.
InitializeOk ==
    /\ initPc = "pending"
    /\ initPc' = "ok"
    /\ isConnected' = TRUE
    /\ redisAvailable' = TRUE
    /\ storageType' = "redis"
    /\ UNCHANGED connectionFailed
    /\ gatewayFrame

\* DataStorageService.initialize, connect() rejected: RedisService.connect
\* sets connectionFailed; the socket may have connected before the failure.
InitializeFailedNoFallback(connected) ==
    /\ initPc = "pending"
    /\ initPc' = "failed"
    /\ isConnected' = connected
    /\ connectionFailed' = FALSE
    /\ redisAvailable' = TRUE
    /\ storageType' = "redis"
    /\ gatewayFrame
InitializeFailed(connected) ==
    /\ initPc = "pending"
    /\ initPc' = "failed"
    /\ isConnected' = connected
    /\ connectionFailed' = TRUE
    /\ redisAvailable' = FALSE
    /\ storageType' = "file"
    /\ gatewayFrame

\* The client's 'error' handler, on a connection that was up.
RedisError ==
    /\ initPc = "ok" /\ ~connectionFailed
    /\ connectionFailed' = TRUE
    /\ isConnected' = FALSE
    /\ UNCHANGED <<initPc, redisAvailable, storageType>>
    /\ gatewayFrame

\* ------------------------------------------------ the other collector
\* LiveFeedService and PreGamesService each build their own
\* DataStorageService, and each of those its own RedisService; the two
\* RedisService instances name their keys from the same REDIS_MATCHES_KEY.
\* The other collector is followed only through what its flushes and its
\* Start do to the cache: a match of its own as saveMatches writes it.
PeerStore(id) ==
    [i \in {id} |-> [sport |-> "B", odds |-> EmptyOdds, sess |-> 0,
                     info |-> [status |-> 0, league |-> "L0"]]]

peerFrame ==
    /\ flushed' = FALSE
    /\ flushFailed' = FALSE
    /\ pollFailed' = FALSE
    /\ UNCHANGED <<collectorVars, gatewayVars, pageVars, batchVars, pureVars, feedFile,
                   dataFile, clearedFor, lastBackend, writable, everFailed, saving>>

\* A flush of the other collector, its store holding match id:
\* RedisService.saveMatches on the shared keys.
PeerFlush(id) ==
    /\ initPc = "ok" /\ IsRedisConnected
    /\ redisKeys' = SaveHashes(redisKeys, PeerStore(id))
    /\ redisIndex' = SaveIndex(redisIndex, PeerStore(id))
    /\ redisExpiry' = SaveExpiry(redisExpiry, {safeToString(id), "metadata"})
    /\ peerSaved' = Put(peerSaved, safeToString(id),
                        SaveHashes(NoMatches, PeerStore(id))[safeToString(id)])
    /\ peerFrame

\* A Start of the other collector: RedisService.clearAllData on the shared
\* keys.
PeerClear ==
    /\ initPc = "ok" /\ IsRedisConnected
    /\ peerSaved # NoMatches
    /\ redisKeys' = NoMatches
    /\ redisIndex' = {}
    /\ redisExpiry' = NoMatches
    /\ peerSaved' = NoMatches
    /\ peerFrame

\* ------------------------------------------------------------- getStatus
\* The odds keys the filters of getStatus test, per service and sport.
StatusKeys(k, sport) ==
    IF sport = "B" THEN {"basketballFTOT1", "basketballFTOT2"}
    ELSE IF sport = "T" THEN
        {"tennisHomeWins", "tennisAwayWins"}
        \cup (IF k = "pre" THEN {"tennisHomeWinsFirstSet", "tennisAwayWinsFirstSet"} ELSE {})
    ELSE {"fullTimeResultHomeWin", "fullTimeResultDraw", "fullTimeResultAwayWin",
          "firstHalfResultHomeWin", "firstHalfResultDraw", "firstHalfResultAwayWin"}
         \cup (IF k = "pre" THEN {"bothTeamsToScore", "oneTeamNotToScore"} ELSE {})

\* getStatus: totalMatches and, per sport, total and the count the service
\* names withFTOTOdds / withDetailedOdds.
getStatus ==
    [totalMatches |-> Cardinality(DOMAIN matches),
     total |-> [s \in ALLOWED_SPORTS |->
                    Cardinality({i \in DOMAIN matches : matches[i].sport = s})],
     withOdds |-> [s \in ALLOWED_SPORTS |->
                    Cardinality({i \in DOMAIN matches :
                                    /\ matches[i].sport = s
                                    /\ DOMAIN matches[i].odds \cap StatusKeys(kind, s) # {}})]]

\* ------------------------------------------------- storage write failures
\* The backend starts to refuse writes (hSet rejects, writeFileSync throws),
\* or accepts them again.
StorageFault ==
    /\ writable' = ~writable
    /\ flushed' = FALSE
    /\ flushFailed' = FALSE
    /\ pollFailed' = FALSE
    /\ UNCHANGED <<collectorVars, gatewayVars, pageVars, batchVars, pureVars, redisKeys,
                   redisIndex, redisExpiry, feedFile, dataFile, clearedFor, lastBackend,
                   everFailed, saving, peerSaved>>

\* ------------------------------------------------------- stream bootstrap
\* The age, in seconds, beyond which an end-of-bootstrap timestamp is stale.
StaleAfter == 300

\* The resume cursor of the continuous phase, from the END frame's
\* timestamp and the wall clock.
resumeCursorStale(endTimestamp, now) == endTimestamp
resumeCursor(endTimestamp, now) ==
    IF now - endTimestamp > StaleAfter THEN now ELSE endTimestamp

streamFrame ==
    UNCHANGED <<collectorVars, gatewayVars, storeVars, pageVars, batchVars, probe>>

\* A second passes while the bootstrap stream is open.
StreamClock ==
    /\ stream.pc = "bootstrap" /\ stream.now < MaxClock
    /\ stream' = [stream EXCEPT !.now = @ + 1]
    /\ streamFrame

\* The bootstrap stream completes, its END frame carrying a timestamp `age`
\* seconds before the wall clock.
StreamEnd(age) ==
    /\ stream.pc = "bootstrap" /\ age <= stream.now
    /\ stream' = [pc |-> "continuous", now |-> stream.now,
                  endTimestamp |-> stream.now - age,
                  cursor |-> resumeCursor(stream.now - age, stream.now)]
    /\ streamFrame

\* ------------------------------------- the final flush, write by write
\* stopLiveFeed / stopPreGames on a running collector in cache mode with a
\* store to save, up to the first await of RedisService.saveMatches: the
\* array handed down holds the match objects of the store at this moment,
\* and the hash of the first of them is built and sent.
StopSaving ==
    /\ isRunning /\ UseRedis /\ matches # NoMatches /\ saving.pc = "idle"
    /\ isRunning' = FALSE
    /\ cacheUpdateTimer' = NoTimer
    /\ activeTimers' = (IF cacheUpdateTimer # NoTimer THEN activeTimers - 1 ELSE activeTimers)
    /\ lastDeltaCacheNumber' = NullToken
    /\ tokenSess' = 0
    /\ LET ids == [j \in 1..Len(Values(matches)) |-> Values(matches)[j].id] IN
        /\ redisKeys' = SaveHashes(redisKeys, [i \in {Head(ids)} |-> matches[i]])
        /\ redisExpiry' = SaveExpiry(redisExpiry, {safeToString(Head(ids))})
        /\ saving' = [pc |-> "hSet", todo |-> Tail(ids), started |-> matches,
                      written |-> [i \in {Head(ids)} |-> matches[i].odds]]
    /\ flushed' = FALSE
    /\ flushFailed' = FALSE
    /\ pollFailed' = FALSE
    /\ UNCHANGED <<kind, collectionInterval, selectedSport, matches, clearing, boots,
                   polls, startResult, session, launched, redisIndex,
                   feedFile, dataFile, clearedFor, lastBackend, writable, everFailed,
                   peerSaved, gatewayVars, pageVars, batchVars, pureVars>>

savingFrame ==
    UNCHANGED <<collectorVars, gatewayVars, pageVars, batchVars, pureVars, feedFile,
                dataFile, clearedFor, writable, everFailed, peerSaved>>

\* saveMatches once the hSet and the expire of a match have been awaited:
\* the next turn of the loop builds the hash of the next match from the
\* match object as it is now, and sends it.
SavingHSet ==
    /\ saving.pc = "hSet" /\ saving.todo # << >>
    /\ LET id == Head(saving.todo) IN
        /\ redisKeys' = SaveHashes(redisKeys, [i \in {id} |-> matches[id]])
        /\ redisExpiry' = SaveExpiry(redisExpiry, {safeToString(id)})
        /\ saving' = [saving EXCEPT !.todo = Tail(@),
                                    !.written = Put(@, id, matches[id].odds)]
    /\ flushed' = FALSE
    /\ flushFailed' = FALSE
    /\ pollFailed' = FALSE
    /\ UNCHANGED <<redisIndex, lastBackend>>
    /\ savingFrame

\* saveMatches once the last match's hSet and expire have been awaited:
\* sAdd of the ids to the index, then saveMetadata; the flush is done.
SavingSAdd ==
    /\ saving.pc = "hSet" /\ saving.todo = << >>
    /\ redisIndex' = SaveIndex(redisIndex, saving.started)
    /\ redisExpiry' = SaveExpiry(redisExpiry, {"metadata"})
    /\ saving' = [saving EXCEPT !.pc = "done"]
    /\ flushed' = TRUE
    /\ flushFailed' = FALSE
    /\ pollFailed' = FALSE
    /\ lastBackend' = "redis"
    /\ UNCHANGED redisKeys
    /\ savingFrame

\* ------------------------------------------------- fetchPagesConcurrently
Min(a, b) == IF a < b THEN a ELSE b

Failed == -1        \* a page request that threw: pageFetcher returns []
Pending == -2       \* a page request not yet answered

\* The items a page answer contributes: pageFetcher turns a failure into [].
PageItems(page, answer) ==
    IF answer = Failed THEN << >> ELSE [i \in 1..answer |-> <<page, i>>]

\* pageNumbers of the batch that starts at page `current`.
PageNumbersOverlapping(current, total, concurrency) ==
    (IF current > 0 THEN current - 1 ELSE 0)..(current + Min(concurrency, total - current) - 1)
PageNumbers(current, total, concurrency) ==
    current..(current + Min(concurrency, total - current) - 1)

\* batchResults.forEach, in page order from `page` on.
RECURSIVE Collect(_, _, _)
Collect(batch, page, last) ==
    IF page > last THEN << >>
    ELSE PageItems(page, batch[page]) \o Collect(batch, page + 1, last)

otherThanPages == UNCHANGED <<collectorVars, gatewayVars, storeVars, batchVars, pureVars>>

\* One iteration of the while loop up to the await of Promise.allSettled:
\* every page of the batch is requested.
PgRequest ==
    /\ pgPc \in {"idle", "delay"}
    /\ pgCurrent < pgTotal
    /\ LET pages == PageNumbers(pgCurrent, pgTotal, pgConc) IN
       /\ pgBatch' = [q \in pages |-> Pending]
       /\ pgRequested' = [q \in DOMAIN pgRequested |->
                            IF q \in pages THEN pgRequested[q] + 1 ELSE pgRequested[q]]
    /\ pgPc' = "batch"
    /\ UNCHANGED <<pgTotal, pgTopN, pgConc, pgCurrent, pgAll, pgAnswers>>
    /\ otherThanPages

\* The upstream answers one page of the batch: `answer` items, or a failure.
PgAnswer(page, answer) ==
    /\ pgPc = "batch"
    /\ page \in DOMAIN pgBatch /\ pgBatch[page] = Pending
    /\ pgBatch' = [pgBatch EXCEPT ![page] = answer]
    /\ pgAnswers' = [q \in DOMAIN pgAnswers \cup {page} |->
                        IF q = page THEN answer ELSE pgAnswers[q]]
    /\ UNCHANGED <<pgPc, pgTotal, pgTopN, pgConc, pgCurrent, pgAll, pgRequested>>
    /\ otherThanPages

\* foundEmptyPage after batchResults.forEach: a fulfilled page with no item
\* (a failed request is one, pageFetcher returning []).
FoundEmptyPageNever(batch) == FALSE
FoundEmptyPageReturnedOnly(batch) == \E q \in DOMAIN batch : batch[q] = 0
FoundEmptyPage(batch) == \E q \in DOMAIN batch : Len(PageItems(q, batch[q])) = 0

\* Promise.allSettled has resolved: the results are appended in page order;
\* an empty page in the batch ends the loop, else the next batch follows
\* (after the 100 ms delay when pages remain).
PgSettle ==
    /\ pgPc = "batch"
    /\ \A q \in DOMAIN pgBatch : pgBatch[q] # Pending
    /\ LET pages == DOMAIN pgBatch
           last == pgCurrent + Cardinality(pages) - 1
           foundEmptyPage == FoundEmptyPage(pgBatch)
       IN /\ pgAll' = pgAll \o Collect(pgBatch, pgCurrent, last)
          /\ IF foundEmptyPage
             THEN pgPc' = "done" /\ UNCHANGED pgCurrent
             ELSE /\ pgCurrent' = pgCurrent + Cardinality(pages)
                  /\ pgPc' = IF pgCurrent' < pgTotal THEN "delay" ELSE "done"
    /\ UNCHANGED <<pgTotal, pgTopN, pgConc, pgBatch, pgAnswers, pgRequested>>
    /\ otherThanPages

\* ------------------------------------------------------- estimateTotalPages
PageCeiling == 100
NotList == -3       \* an answer whose data is not an array

\* estimateTotalPages, from the answer of its request for page 0: the
\* ceiling when the page is full, else (a shorter or longer list, no list,
\* a failure) one page.
estimateTotalPagesAlwaysCeiling(answer, topN) == PageCeiling
estimateTotalPages(answer, topN) == IF answer = topN THEN PageCeiling ELSE 1

\* fetch*Events: totalPages = await estimateTotalPages(sportId, 30), handed
\* to fetchPagesConcurrently.
PgEstimate(answer) ==
    /\ pgPc = "probe"
    /\ pgTotal' = estimateTotalPages(answer, pgTopN)
    /\ pgPc' = "idle"
    /\ UNCHANGED <<pgTopN, pgConc, pgCurrent, pgBatch, pgAll, pgAnswers, pgRequested>>
    /\ otherThanPages

\* ---------------------------------------------- processBatchWithConcurrency
\* items.slice(i, i + concurrency), items numbered from 1.
SliceWide(i, n, concurrency) == (i + 1)..Min(i + concurrency + 1, n)
Slice(i, n, concurrency) == (i + 1)..Min(i + concurrency, n)

otherThanBatch == UNCHANGED <<collectorVars, gatewayVars, storeVars, pageVars, pureVars>>

\* One iteration of the for loop up to the await of Promise.allSettled:
\* batch.map(processor) hands every item of the slice to the processor.
BcSubmit ==
    /\ bcPc \in {"idle", "delay"}
    /\ bcI < bcItems
    /\ LET batch == Slice(bcI, bcItems, bcConc) IN
       /\ bcBatch' = [x \in batch |-> "pending"]
       /\ bcCalls' = [x \in DOMAIN bcCalls |->
                        IF x \in batch THEN bcCalls[x] + 1 ELSE bcCalls[x]]
    /\ bcPc' = "batch"
    /\ UNCHANGED <<bcItems, bcConc, bcI, bcResults>>
    /\ otherThanBatch

\* One processor promise settles.
BcSettleOne(x, outcome) ==
    /\ bcPc = "batch"
    /\ x \in DOMAIN bcBatch /\ bcBatch[x] = "pending"
    /\ bcBatch' = [bcBatch EXCEPT ![x] = outcome]
    /\ UNCHANGED <<bcPc, bcItems, bcConc, bcI, bcResults, bcCalls>>
    /\ otherThanBatch

RECURSIVE Fulfilled(_, _, _)
Fulfilled(batch, x, last) ==
    IF x > last THEN << >>
    ELSE (IF batch[x] = "fulfilled" THEN <<x>> ELSE << >>) \o Fulfilled(batch, x + 1, last)

\* Promise.allSettled has resolved: the fulfilled results are pushed in
\* order and the loop steps by `concurrency` (after 100 ms when items remain).
BcSettle ==
    /\ bcPc = "batch"
    /\ \A x \in DOMAIN bcBatch : bcBatch[x] # "pending"
    /\ bcResults' = bcResults \o Fulfilled(bcBatch, bcI + 1, Min(bcI + bcConc, bcItems))
    /\ bcI' = bcI + bcConc
    /\ bcPc' = IF bcI' < bcItems THEN "delay" ELSE "done"
    /\ UNCHANGED <<bcItems, bcConc, bcBatch, bcCalls>>
    /\ otherThanBatch

\* The promises of one batch that have not settled, `pending` being the
\* mark of an unsettled one.
InFlight(batch, pending) == {x \in DOMAIN batch : batch[x] = pending}

\* ---------------------------------------------------------- specifications
\* The collector after construction: the defaults of the constructor, the
\* gateway's initialize() pending, nothing persisted.
InitCollector ==
    /\ kind \in {"live", "pre"}
    /\ isRunning = FALSE
    /\ collectionInterval = DefaultInterval(kind)
    /\ selectedSport = (IF kind = "live" THEN "S" ELSE "B")
    /\ matches = NoMatches
    /\ lastDeltaCacheNumber = NullToken
    /\ cacheUpdateTimer = NoTimer
    /\ activeTimers = 0
    /\ clearing = {}
    /\ boots = EmptyBag
    /\ polls = EmptyBag
    /\ startResult = "none"
    /\ session = 0
    /\ launched = 0
    /\ tokenSess = 0

InitGateway ==
    /\ initPc = "pending"
    /\ redisAvailable = FALSE
    /\ storageType = "file"
    /\ isConnected = FALSE
    /\ connectionFailed = FALSE

InitStore ==
    /\ redisKeys = NoMatches
    /\ redisIndex = {}
    /\ redisExpiry = NoMatches
    /\ feedFile = NoFile
    /\ dataFile = NoFile
    /\ clearedFor = 0
    /\ flushed = FALSE
    /\ lastBackend = "none"
    /\ writable = TRUE
    /\ flushFailed = FALSE
    /\ pollFailed = FALSE
    /\ everFailed = FALSE
    /\ saving = NotSaving
    /\ peerSaved = NoMatches

\* No paginated fetch under way.
NoPages ==
    /\ pgPc = "done" /\ pgTotal = 1 /\ pgTopN = 1 /\ pgConc = 1 /\ pgCurrent = 0
    /\ pgBatch = NoMatches /\ pgAll = << >> /\ pgAnswers = NoMatches
    /\ pgRequested = [q \in 0..0 |-> 0]

\* No batch run under way.
NoBatch ==
    /\ bcPc = "done" /\ bcItems = 0 /\ bcConc = 1 /\ bcI = 0
    /\ bcBatch = NoMatches /\ bcResults = << >> /\ bcCalls = NoMatches

\* No stream bootstrap and no normalization probe under way.
NoStream == stream = [pc |-> "off", now |-> 0, endTimestamp |-> 0, cursor |-> 0]
NoProbe == probe = [pc |-> "off"]

Init == InitCollector /\ InitGateway /\ InitStore /\ NoPages /\ NoBatch /\ NoStream /\ NoProbe

\* The handlers with their inputs drawn from given sets.
StartIn(intervals, sports) ==
    \E interval \in intervals, sport \in sports : Start(interval, sport)
BootTreeIn(lists) == \E t \in BagToSet(boots), tree \in lists : BootTree(t, tree)
BootCatalogIn(lists) == \E t \in BagToSet(boots), events \in lists : BootCatalog(t, events)
BootDetailsIn(details) ==
    \E t \in BagToSet(boots) :
        \E ds \in [1..Len(t.data) -> details] : BootDetails(t, ds)
PollResponseIn(responses) ==
    \E p \in BagToSet(polls), r \in responses : PollResponse(p, r)
PollDetailIn(details) == \E p \in BagToSet(polls), d \in details : PollDetail(p, d)

\* Spec: the collector's life cycle.  Start is called with a valid and an
\* invalid value of each argument, the upstream offers one football event
\* or nothing, the changes endpoint answers with a token alone, and a cache
\* connection that came up stays up.
LifeLists ==
    {<< >>, <<[id |-> 1, sportId |-> 1, isPlayable |-> TRUE, bets |-> << >>]>>}

Next ==
    \/ StartIn({5, 120}, {"S", "B", "X"})
    \/ (\E n \in clearing : StartCleared(n))
    \/ Stop
    \/ BootTreeIn(LifeLists)
    \/ (\E t \in BagToSet(boots) : BootResults(t))
    \/ BootCatalogIn(LifeLists)
    \/ BootDetailsIn({NoDetail})
    \/ (\E t \in BagToSet(boots) : BootSaved(t))
    \/ Tick(MaxPolls)
    \/ (\E p \in BagToSet(polls) : PollFailed(p))
    \/ PollResponseIn([token : {"t1"}, changedEvents : {<< >>}, changedBetOutcomes : {<< >>}])
    \/ InitializeOk
    \/ (\E connected \in BOOLEAN : InitializeFailed(connected))

Spec == Init /\ [][Next]_vars

\* SpecStart: Start called with every argument pair of IntervalInputs and
\* SportInputs, on a gateway that stays in file mode.
NextStart ==
    \/ StartIn(IntervalInputs, SportInputs)
    \/ Stop
    \/ BootTreeIn(LifeLists)
    \/ (\E t \in BagToSet(boots) : BootResults(t))
    \/ BootCatalogIn(LifeLists)
    \/ BootDetailsIn({NoDetail})
    \/ Tick(MaxPolls)
    \/ (\E p \in BagToSet(polls) : PollFailed(p))
    \/ PollResponseIn([token : {"t1"}, changedEvents : {<< >>}, changedBetOutcomes : {<< >>}])

SpecStart == Init /\ [][NextStart]_vars

\* SpecData: one football session of either collector on an upstream that
\* offers one football event (once, or twice in the same list) or two, with
\* delta polls that overlap and announce event 1 and a new odd for it.
DataEvent(id, bets) == [id |-> id, sportId |-> 1, isPlayable |-> TRUE, bets |-> bets]
DataBets == <<Outcome(56, "Konacan ishod", "1", 2, 11)>>
DataLists ==
    {<< >>} \cup {<<DataEvent(i, DataBets)>> : i \in Ids}
            \cup {<<DataEvent(1, DataBets), DataEvent(i, << >>)>> : i \in Ids}
DataDetails == {NoDetail, [ok |-> TRUE, bets |-> DataBets]}
DataResponses ==
    [token : {"t1"},
     changedEvents :
        {<< >>,
         <<[id |-> 1, sportId |-> 1, status |-> 0, league |-> "L0", wellFormed |-> TRUE]>>},
     changedBetOutcomes :
        {<< >>,
         <<[eventId |-> 1, sportId |-> 1, betTypeName |-> "Oba tima daju gol",
            outcomeName |-> "NG", newValue |-> 3, betTypeOutcomeId |-> 11,
            wellFormed |-> TRUE]>>}]

StartOnce == session = 0 /\ Start(DefaultInterval(kind), "S")

NextData ==
    \/ StartOnce
    \/ (\E n \in clearing : StartCleared(n))
    \/ Stop
    \/ BootTreeIn(DataLists)
    \/ (\E t \in BagToSet(boots) : BootResults(t))
    \/ BootCatalogIn(DataLists)
    \/ BootDetailsIn(DataDetails)
    \/ (\E t \in BagToSet(boots) : BootSaved(t))
    \/ Tick(MaxOverlap)
    \/ (\E p \in BagToSet(polls) : PollFailed(p))
    \/ PollResponseIn(DataResponses)
    \/ PollDetailIn(DataDetails)
    \/ (\E p \in BagToSet(polls) : PollOutcomes(p))
    \/ InitializeOk
    \/ (\E connected \in BOOLEAN : InitializeFailed(connected))
    \/ RedisError

SpecData == Init /\ [][NextData]_vars

\* SpecHelpers: one call of fetchPagesConcurrently(sportId, totalPages, topN,
\* concurrency) or of processBatchWithConcurrency(items, processor,
\* concurrency), with every argument tuple within the bounds.
InitHelpers ==
    /\ InitCollector /\ kind = "pre" /\ InitGateway /\ InitStore /\ NoStream /\ NoProbe
    /\ \/ /\ pgTotal \in 1..MaxPages
          /\ pgTopN \in 1..MaxTopN
          /\ pgConc \in 1..MaxConcurrency
          /\ pgPc = "idle"
          /\ pgCurrent = 0
          /\ pgBatch = NoMatches
          /\ pgAll = << >>
          /\ pgAnswers = NoMatches
          /\ pgRequested = [q \in 0..(MaxPages - 1) |-> 0]
          /\ NoBatch
       \/ /\ bcItems \in 1..MaxItems
          /\ bcConc \in 1..MaxConcurrency
          /\ bcPc = "idle"
          /\ bcI = 0
          /\ bcBatch = NoMatches
          /\ bcResults = << >>
          /\ bcCalls = [x \in 1..bcItems |-> 0]
          /\ NoPages

NextHelpers ==
    \/ PgRequest
    \/ \E page \in DOMAIN pgBatch, answer \in {Failed} \cup 0..pgTopN : PgAnswer(page, answer)
    \/ PgSettle
    \/ BcSubmit
    \/ \E x \in DOMAIN bcBatch, outcome \in {"fulfilled", "rejected"} : BcSettleOne(x, outcome)
    \/ BcSettle

SpecHelpers == InitHelpers /\ [][NextHelpers]_vars

\* The same with its scheduling: every request is answered (axios gives up
\* after 30 s) and the event loop runs every continuation that is ready.
FairHelpers == SpecHelpers /\ WF_vars(NextHelpers)

\* SpecPair: the collector beside the other collector of the process, both
\* on the cache when the connection came up.  Start is called with the
\* defaults, the upstream offers one football event or nothing.
NextPair ==
    \/ Start(DefaultInterval(kind), "S")
    \/ (\E n \in clearing : StartCleared(n))
    \/ Stop
    \/ BootTreeIn(LifeLists)
    \/ (\E t \in BagToSet(boots) : BootResults(t))
    \/ BootCatalogIn(LifeLists)
    \/ BootDetailsIn({NoDetail})
    \/ (\E t \in BagToSet(boots) : BootSaved(t))
    \/ InitializeOk
    \/ (\E connected \in BOOLEAN : InitializeFailed(connected))
    \/ \E id \in Ids : PeerFlush(id)
    \/ PeerClear

SpecPair == Init /\ [][NextPair]_vars

\* SpecFail: the collector on a storage that may refuse writes at any time.
\* One football session, the upstream offers one football event or nothing,
\* and the changes endpoint answers with a token and possibly a new odd for
\* event 1.
FailResponses == {r \in DataResponses : r.changedEvents = << >>}

NextFail ==
    \/ StartOnce
    \/ (\E n \in clearing : StartCleared(n))
    \/ Stop
    \/ BootTreeIn(LifeLists)
    \/ (\E t \in BagToSet(boots) : BootResults(t))
    \/ BootCatalogIn(LifeLists)
    \/ BootDetailsIn({NoDetail})
    \/ (\E t \in BagToSet(boots) : BootSaved(t))
    \/ Tick(MaxPolls)
    \/ (\E p \in BagToSet(polls) : PollFailed(p))
    \/ PollResponseIn(FailResponses)
    \/ InitializeOk
    \/ (\E connected \in BOOLEAN : InitializeFailed(connected))
    \/ StorageFault

SpecFail == Init /\ [][NextFail]_vars

\* SpecStream: one stream bootstrap, its END frame arriving at any second
\* with a timestamp fresh, at the limit, or stale.
InitStream ==
    /\ InitCollector /\ kind = "live" /\ InitGateway /\ InitStore /\ NoPages /\ NoBatch
    /\ NoProbe
    /\ stream = [pc |-> "bootstrap", now |-> 0, endTimestamp |-> 0, cursor |-> 0]

NextStream ==
    \/ StreamClock
    \/ \E age \in {0, 100, StaleAfter - 1, StaleAfter, StaleAfter + 1, 400} : StreamEnd(age)

SpecStream == InitStream /\ [][NextStream]_vars

\* SpecFlush: one football session whose Stop, in cache mode, is followed
\* through the writes of saveMatches, with a delta poll in flight whose
\* answer carries a new odd for each of the events 1 and 2.
FlushOutcome(id) ==
    [eventId |-> id, sportId |-> 1, betTypeName |-> "Oba tima daju gol",
     outcomeName |-> "NG", newValue |-> 3, betTypeOutcomeId |-> 11, wellFormed |-> TRUE]
NextFlush ==
    \/ StartOnce
    \/ (\E n \in clearing : StartCleared(n))
    \/ StopSaving
    \/ ~(isRunning /\ UseRedis /\ matches # NoMatches) /\ Stop
    \/ SavingHSet
    \/ SavingSAdd
    \/ BootTreeIn(DataLists)
    \/ (\E t \in BagToSet(boots) : BootResults(t))
    \/ BootCatalogIn(DataLists)
    \/ BootDetailsIn(DataDetails)
    \/ (\E t \in BagToSet(boots) : BootSaved(t))
    \/ Tick(MaxPolls)
    \/ (\E p \in BagToSet(polls) : PollFailed(p))
    \/ PollResponseIn([token : {"t1"}, changedEvents : {<< >>},
                       changedBetOutcomes : {<< >>, <<FlushOutcome(1), FlushOutcome(2)>>}])
    \/ InitializeOk
    \/ (\E connected \in BOOLEAN : InitializeFailed(connected))

SpecFlush == Init /\ [][NextFlush]_vars

\* SpecKeys: one bet outcome (sport, bet type, outcome name, special value)
\* put through phase-one normalization and through updateMatchOdds of the
\* same service, each on an empty OddsSet.  The bet types are the ones
\* either path names, with the betTypeId the live service knows them by
\* (0: none it tests; 56 is 'Konacan ishod' in football and 'Pobednik' in
\* basketball and tennis).
ProbeBetTypes ==
    {<<56, "Konacan ishod">>, <<56, "Pobednik">>, <<6, "1.pol - 1X2">>,
     <<22, "Ukupno golova">>, <<0, "1.pol - Ukupno">>, <<0, "1.p - Ukupno">>,
     <<0, "1.pol - Ukupno golova">>, <<0, "Oba tima daju gol">>,
     <<0, "Pobednik seta">>, <<0, "1.set - Pobednik">>}

InitKeys ==
    /\ InitCollector /\ InitGateway /\ InitStore /\ NoPages /\ NoBatch /\ NoStream
    /\ probe \in [pc : {"drawn"}, sport : ALLOWED_SPORTS, bet : ProbeBetTypes,
                  name : {"1", "X", "2", "GG", "NG", "Manje", "Vise", "Home"},
                  sBV : {"", "1", "2.5"},
                  normalized : {EmptyOdds}, updated : {EmptyOdds}]
    /\ probe.bet[1] = 56 => (probe.bet[2] = "Konacan ishod" <=> probe.sport = "S")

probeFrame ==
    UNCHANGED <<collectorVars, gatewayVars, storeVars, pageVars, batchVars, stream>>

\* Phase one: the outcome as a bet of the event's detail.
ProbeNormalize ==
    /\ probe.pc = "drawn"
    /\ probe' = [probe EXCEPT
                    !.pc = "normalized",
                    !.normalized =
                        Normalize(kind, probe.sport,
                                  <<[betTypeId |-> probe.bet[1], betTypeName |-> probe.bet[2],
                                     name |-> probe.name, odd |-> 2,
                                     betTypeOutcomeId |-> 11, sBV |-> probe.sBV]>>,
                                  EmptyOdds)]
    /\ probeFrame

\* The delta path: the same outcome as a changed bet outcome.
ProbeUpdate ==
    /\ probe.pc = "normalized"
    /\ probe' = [probe EXCEPT
                    !.pc = "done",
                    !.updated =
                        updateMatchOdds(kind, probe.sport, EmptyOdds,
                                        [betTypeName |-> probe.bet[2],
                                         outcomeName |-> probe.name, newValue |-> 2,
                                         betTypeOutcomeId |-> 11, sBV |-> probe.sBV])]
    /\ probeFrame

NextKeys == ProbeNormalize \/ ProbeUpdate

SpecKeys == InitKeys /\ [][NextKeys]_vars

\* SpecDelta: one football session of either collector on an upstream that
\* offers event 1 or nothing, one delta poll at a time.  A response carries
\* no changed event, a record of event 1 with a new status and league, or a
\* malformed record of event 2 before a record of event 1 with an empty
\* league; and no changed outcome, a new odd for event 1, or a malformed
\* outcome record before it.
DeltaResponses ==
    LET event(id, status, league, ok) ==
            [id |-> id, sportId |-> 1, status |-> status, league |-> league,
             wellFormed |-> ok]
        outcome(name, v, ok) ==
            [FlushOutcome(1) EXCEPT !.outcomeName = name, !.newValue = v, !.wellFormed = ok]
    IN [token : {"t1"},
        changedEvents :
            {<< >>, <<event(1, 1, "L1", TRUE)>>,
             <<event(2, 1, "L2", FALSE), event(1, 2, "", TRUE)>>},
        changedBetOutcomes :
            {<< >>, <<outcome("NG", 3, TRUE)>>,
             <<outcome("GG", 4, FALSE), outcome("NG", 3, TRUE)>>}]

NextDelta ==
    \/ StartOnce
    \/ Stop
    \/ BootTreeIn(LifeLists)
    \/ (\E t \in BagToSet(boots) : BootResults(t))
    \/ BootCatalogIn(LifeLists)
    \/ BootDetailsIn({NoDetail})
    \/ (\E t \in BagToSet(boots) : BootSaved(t))
    \/ Tick(MaxPolls)
    \/ (\E p \in BagToSet(polls) : PollFailed(p))
    \/ PollResponseIn(DeltaResponses)
    \/ PollDetailIn(DataDetails)
    \/ (\E p \in BagToSet(polls) : PollOutcomes(p))
    \/ InitializeOk

SpecDelta == Init /\ [][NextDelta]_vars

\* SpecProbe: one catalog fetch as fetch*Events makes it, estimateTotalPages
\* and then fetchPagesConcurrently with concurrency 5, on an upstream with
\* page size 1: the probe is answered with no list, a failure, or a list of
\* 0, 1 or 2 items, every later page with a failure or 0 or 1 item.
InitProbe ==
    /\ InitCollector /\ kind = "pre" /\ InitGateway /\ InitStore
    /\ NoBatch /\ NoStream /\ NoProbe
    /\ pgPc = "probe" /\ pgTotal = 0 /\ pgTopN = 1 /\ pgConc = 5 /\ pgCurrent = 0
    /\ pgBatch = NoMatches /\ pgAll = << >> /\ pgAnswers = NoMatches
    /\ pgRequested = [q \in 0..PageCeiling |-> 0]

NextProbe ==
    \/ \E answer \in {NotList, Failed, 0, 1, 2} : PgEstimate(answer)
    \/ PgRequest
    \/ \E page \in DOMAIN pgBatch, answer \in {Failed, 0, 1} : PgAnswer(page, answer)
    \/ PgSettle

SpecProbe == InitProbe /\ [][NextProbe]_vars

\* SpecFile: the session of SpecDelta in a process whose snapshot file may
\* have been left by an earlier run: absent, or holding match 2, or match 2
\* and then match 1 with a match-result odd.
InitFile ==
    /\ InitCollector /\ InitGateway /\ NoPages /\ NoBatch /\ NoStream /\ NoProbe
    /\ redisKeys = NoMatches /\ redisIndex = {} /\ redisExpiry = NoMatches
    /\ dataFile = NoFile /\ clearedFor = 0 /\ flushed = FALSE /\ lastBackend = "none" /\ writable = TRUE
    /\ flushFailed = FALSE /\ pollFailed = FALSE /\ everFailed = FALSE /\ saving = NotSaving
    /\ peerSaved = NoMatches
    /\ LET older == SaveToFile(NoFile, SetMatch(NoMatches, 2, "S", EmptyOdds))
       IN \/ feedFile = NoFile
          \/ feedFile = older
          \/ feedFile = SaveToFile(older, SetMatch(NoMatches, 1, "S",
                                       Normalize(kind, "S", DataBets, EmptyOdds)))

SpecFile == InitFile /\ [][NextDelta]_vars


\* SpecOdds: one session of either collector in file mode, of any allowed
\* sport, on an upstream that offers one event of any sport whose bets are
\* drawn from OddsBets: none, a market either service knows, a bet type no
\* path names ('Dupla sansa', betTypeId 0), an outcome name no market knows
\* ("Q"), goal ranges of 'Broj golova', a goal line, and an unknown bet before
\* a known one.  A delta poll announces event 2 or nothing and carries one
\* changed outcome for event 1 or 2 of football or basketball.
OddsBets ==
    LET bet(tid, tname, n) ==
            [betTypeId |-> tid, betTypeName |-> tname, name |-> n, odd |-> 2,
             betTypeOutcomeId |-> 11]
    IN {<< >>,
        <<bet(56, "Konacan ishod", "1")>>,
        <<bet(56, "Pobednik", "2")>>,
        <<bet(0, "Dupla sansa", "1")>>,
        <<bet(56, "Konacan ishod", "Q")>>,
        <<bet(0, "Broj golova", "1-2")>>,
        <<bet(0, "Broj golova", "2-3"), bet(0, "Broj golova", "1-4")>>,
        <<[bet(22, "Ukupno golova", "Manje") EXCEPT !.odd = 3] @@ [sBV |-> "2.5"]>>,
        <<bet(0, "Dupla sansa", "1"), bet(56, "Konacan ishod", "Q"),
          bet(56, "Konacan ishod", "X")>>}

OddsLists ==
    {<< >>} \cup
    {<<[id |-> 1, sportId |-> s, isPlayable |-> TRUE, bets |-> b]>> :
        s \in DOMAIN sportMapping, b \in OddsBets}

OddsDetails == {NoDetail} \cup {[ok |-> TRUE, bets |-> b] : b \in OddsBets}

OddsResponses ==
    [token : {"t1"},
     changedEvents :
        {<< >>,
         <<[id |-> 2, sportId |-> 1, status |-> 1, league |-> "L1", wellFormed |-> TRUE]>>},
     changedBetOutcomes :
        {<<[eventId |-> i, sportId |-> s, betTypeName |-> b[1], outcomeName |-> b[2],
            newValue |-> 5, betTypeOutcomeId |-> 12, wellFormed |-> TRUE, sBV |-> b[3]]>> :
            i \in {1, 2}, s \in {1, 2},
            b \in {<<"Konacan ishod", "1", "">>, <<"Pobednik", "1", "">>,
                   <<"Broj golova", "1-2", "">>, <<"Ukupno golova", "Manje", "2.5">>,
                   <<"Ukupno golova", "Manje", "3.5">>, <<"Dupla sansa", "1", "">>,
                   <<"Konacan ishod", "Q", "">>}}]

NextOdds ==
    \/ session = 0 /\ StartIn({120}, ALLOWED_SPORTS)
    \/ BootTreeIn(OddsLists)
    \/ (\E t \in BagToSet(boots) : BootResults(t))
    \/ BootCatalogIn(OddsLists)
    \/ BootDetailsIn(OddsDetails)
    \/ Tick(1)
    \/ (\E p \in BagToSet(polls) : PollFailed(p))
    \/ PollResponseIn(OddsResponses)
    \/ PollDetailIn(OddsDetails)

SpecOdds == Init /\ [][NextOdds]_vars

\* The keys the ReadableOdds interface declares, by the sport whose markets
\* they name.
ReadableOdds(sport) ==
    IF sport = "B" THEN {"basketballFTOT1", "basketballFTOT2"}
    ELSE IF sport = "T" THEN
        {"tennisHomeWins", "tennisAwayWins", "tennisHomeWinsFirstSet",
         "tennisAwayWinsFirstSet", "tennisHomeWinsSecondSet", "tennisAwayWinsSecondSet"}
    ELSE {"fullTimeResultHomeWin", "fullTimeResultDraw", "fullTimeResultAwayWin",
          "firstHalfResultHomeWin", "firstHalfResultDraw", "firstHalfResultAwayWin",
          "firstHalfUnderTotal", "firstHalfOverTotal", "fullTimeUnderTotal",
          "fullTimeOverTotal", "bothTeamsToScore", "oneTeamNotToScore",
          "zeroToTwoGoals", "oneOrTwoGoals", "oneToThreeGoals", "twoOrThreeGoals",
          "twoToFourGoals", "threeToFourGoals", "threeToFiveGoals", "fourToFiveGoals",
          "fourToSixGoals"}
\* ------------------------------------------------------------------ claims
\* C1: once Stop has returned, no delta-poll timer is active, and none
\* becomes active until the next valid Start; that is, whenever the
\* collector is not running its timer is unset, under every interleaving of
\* Start, Stop, the steps of the initial collection and the poll ticks.
C1_NoTimerWhileStopped == ~isRunning => cacheUpdateTimer = NoTimer

\* C2 as stated: for every (interval, sport) and every state, a Start with a
\* valid pair on an idle collector makes it running with that interval and
\* sport, and a Start with an invalid pair returns InvalidArgument and
\* leaves isRunning, interval, sport, MatchStore, delta token and timer
\* unchanged.  (No Start step from the state does otherwise.)
C2_InvalidAlwaysRejected ==
    \A i \in IntervalInputs, s \in SportInputs :
        IF s \in {"B", "T", "S"}
           /\ i \in (IF kind = "live" THEN {1, 15, 30, 60, 120} ELSE {120})
        THEN ~isRunning =>
                ~ENABLED (Start(i, s)
                          /\ ~(isRunning' /\ collectionInterval' = i /\ selectedSport' = s))
        ELSE ~ENABLED (Start(i, s)
                       /\ ~(/\ startResult' = "InvalidArgument"
                            /\ UNCHANGED <<isRunning, collectionInterval, selectedSport,
                                           matches, lastDeltaCacheNumber, cacheUpdateTimer>>))

\* C2 amended: a Start with a valid pair on an idle collector makes it
\* running with that interval and sport; a Start with an invalid pair on an
\* idle collector returns InvalidArgument; a Start on a running collector
\* returns without an error whatever the pair; and in the last two cases
\* isRunning, interval, sport, MatchStore, delta token and timer are unchanged.
C2_InvalidRejectedWhenIdle ==
    \A i \in IntervalInputs, s \in SportInputs :
        IF isRunning
        THEN ~ENABLED (Start(i, s)
                       /\ ~(/\ startResult' = "alreadyRunning"
                            /\ UNCHANGED <<isRunning, collectionInterval, selectedSport,
                                           matches, lastDeltaCacheNumber, cacheUpdateTimer>>))
        ELSE IF s \in {"B", "T", "S"}
                /\ i \in (IF kind = "live" THEN {1, 15, 30, 60, 120} ELSE {120})
        THEN ~ENABLED (Start(i, s)
                       /\ ~(isRunning' /\ collectionInterval' = i /\ selectedSport' = s))
        ELSE ~ENABLED (Start(i, s)
                       /\ ~(/\ startResult' = "InvalidArgument"
                            /\ UNCHANGED <<isRunning, collectionInterval, selectedSport,
                                           matches, lastDeltaCacheNumber, cacheUpdateTimer>>))

\* An invalid Start has been rejected on an idle collector that has a
\* MatchStore to lose (a session has run).
C2_RejectedAfterSession ==
    startResult = "InvalidArgument" /\ ~isRunning /\ session >= 1 /\ matches # NoMatches

\* C3: a Start on a running collector leaves interval, sport, MatchStore,
\* delta token and poll timer unchanged, issues no storage clear and
\* launches no initial collection; and the initial collections launched or
\* still waiting for their storage clear are as many as the Idle-to-running
\* transitions.
C3_StartWhileRunningIsNoOp ==
    /\ launched + Cardinality(clearing) = session
    /\ isRunning =>
        \A i \in IntervalInputs, s \in SportInputs :
            ~ENABLED (Start(i, s)
                      /\ ~UNCHANGED <<isRunning, collectionInterval, selectedSport, matches,
                                      lastDeltaCacheNumber, cacheUpdateTimer, clearing,
                                      boots, launched, session, clearedFor, redisKeys,
                                      redisIndex, feedFile, dataFile>>)

\* Start has returned from a running collector that has a store, a token
\* and a timer to lose.
C3_StartedTwice ==
    /\ startResult = "alreadyRunning" /\ isRunning
    /\ matches # NoMatches /\ lastDeltaCacheNumber # NullToken
    /\ cacheUpdateTimer # NoTimer

\* C4: once the storage clear of the latest valid Start has completed
\* without error, the snapshot the collector's flushes write to holds no
\* match persisted before that Start.
C4_ClearedSnapshotIsFresh ==
    (session >= 1 /\ clearedFor = session) =>
        \A i \in DOMAIN PersistedSnapshot : PersistedSnapshot[i].sess = session

\* C5: a running collector whose initial collection has ended (no step of
\* it is pending, so nothing further can start the timer) is Active: its
\* delta-poll timer is running, whatever the initial collection fetched.
C5_ActiveOnceCollected ==
    (isRunning /\ boots = EmptyBag /\ clearing = {}) => cacheUpdateTimer # NoTimer

\* C6 as stated: for every concurrency >= 3 and page size N, on upstream
\* pages [N, N, 0, N, ...] the fetch returns exactly the items of the first
\* two pages and never requests page index 3.
C6_StopsAtThirdPage ==
    (/\ pgPc = "done" /\ pgConc >= 3 /\ pgTotal >= 4
     /\ {0, 1, 2} \subseteq DOMAIN pgAnswers
     /\ \A q \in DOMAIN pgAnswers : pgAnswers[q] = (IF q = 2 THEN 0 ELSE pgTopN))
    => /\ pgAll = PageItems(0, pgTopN) \o PageItems(1, pgTopN)
       /\ pgRequested[3] = 0

\* C6 amended: for every concurrency c >= 3 and page size N, on upstream
\* pages [N, N, 0, N, ...] the fetch requests exactly the pages of its first
\* batch (indices below min(c, totalPages)), each once, and returns the
\* items of those pages in page order; so it returns exactly the items of
\* the first two pages, and never requests page index 3, when c = 3.
C6_StopsAfterFirstBatch ==
    (/\ pgPc = "done" /\ pgConc >= 3 /\ pgTotal >= 4
     /\ {0, 1, 2} \subseteq DOMAIN pgAnswers
     /\ \A q \in DOMAIN pgAnswers : pgAnswers[q] = (IF q = 2 THEN 0 ELSE pgTopN))
    => /\ \A q \in DOMAIN pgRequested :
            pgRequested[q] = (IF q < Min(pgConc, pgTotal) THEN 1 ELSE 0)
       /\ pgAll = Collect(pgAnswers, 0, Min(pgConc, pgTotal) - 1)
       /\ pgConc = 3 =>
            pgAll = PageItems(0, pgTopN) \o PageItems(1, pgTopN) /\ pgRequested[3] = 0

\* A fetch with concurrency above 3 has ended on pages [N, N, 0, N, ...],
\* page index 3 requested and its items returned.
C6_FourthPageFetched ==
    /\ pgPc = "done" /\ pgConc >= 4 /\ pgTotal >= 4
    /\ {0, 1, 2, 3} \subseteq DOMAIN pgAnswers
    /\ \A q \in DOMAIN pgAnswers : pgAnswers[q] = (IF q = 2 THEN 0 ELSE pgTopN)
    /\ pgRequested[3] = 1
    /\ Len(pgAll) = 3 * pgTopN

\* C7: in one call of either batch helper the requests in flight are never
\* more than the concurrency limit, no item (page) is handed to the
\* processor (requested) more than once, and when
\* processBatchWithConcurrency returns every item has been handed to the
\* processor exactly once.
C7_InFlightBounded ==
    /\ Cardinality(InFlight(bcBatch, "pending")) <= bcConc
    /\ Cardinality(InFlight(pgBatch, Pending)) <= pgConc
    /\ \A x \in DOMAIN bcCalls : bcCalls[x] <= 1
    /\ \A q \in DOMAIN pgRequested : pgRequested[q] <= 1
    /\ bcPc = "done" => \A x \in 1..bcItems : bcCalls[x] = 1

\* The second batch of a run has as many requests in flight as the limit
\* allows, the items of the first batch handed to the processor once each.
C7_SecondBatchFull ==
    /\ bcPc = "batch" /\ bcI > 0 /\ bcConc >= 2
    /\ Cardinality(InFlight(bcBatch, "pending")) = bcConc
    /\ \A x \in 1..bcI : bcCalls[x] = 1

\* C8: within one collection session no write to MatchStore removes an odds
\* key that a stored match already had: every key a match has before a step
\* it still has after it.
C8_NoKeyRemoved ==
    [][session' = session =>
        \A i \in DOMAIN matches \cap DOMAIN matches' :
            DOMAIN matches[i].odds \subseteq DOMAIN matches'[i].odds]_vars

\* C9: right after a collector's snapshot write, getData() of the same
\* gateway yields the ids of the matches written and, for each, the odds
\* keys and values written, in file mode and in cache mode.
C9_RoundTrip ==
    flushed =>
        /\ ~GetData.isNull
        /\ DOMAIN GetData.matches = DOMAIN matches
        /\ \A i \in DOMAIN matches : GetData.matches[i].odds = matches[i].odds

\* C10: once the connection attempt of initialize() has failed,
\* getStorageType() reports "file", no operation picks the cache backend,
\* nothing is written to or cleared from the cache, and a flush has put every
\* match of the store into the feed's file.
C10_FallbackIsPermanent ==
    initPc = "failed" =>
        /\ storageType = "file"
        /\ ~UseRedis
        /\ lastBackend # "redis"
        /\ redisKeys = NoMatches /\ redisIndex = {}
        /\ flushed =>
            \A i \in DOMAIN matches :
                i \in DOMAIN FileMatches(feedFile) /\ FileMatches(feedFile)[i] = matches[i]

\* After the failed attempt (the socket itself having connected), a session
\* has cleared the storage and a flush has written a match.
C10_FlushedAfterFailure ==
    /\ initPc = "failed" /\ isConnected
    /\ session >= 1 /\ clearedFor = session
    /\ flushed /\ lastBackend = "file" /\ matches # NoMatches


\* C11: the two collectors are independent: no Start, Stop or flush of this
\* collector changes the snapshot the other collector has persisted, so
\* every hash the other collector saved is still in the cache, unchanged and
\* named by the index.
C11_PeerSnapshotKept ==
    \A k \in DOMAIN peerSaved :
        k \in redisIndex /\ k \in DOMAIN redisKeys /\ redisKeys[k] = peerSaved[k]

C13_WriteIsIdempotent ==
    /\ \A i \in Ids, odds \in {EmptyOdds, Normalize(kind, "S", DataBets, EmptyOdds)} :
            LET once == SetMatch(matches, i, "S", odds)
            IN SetMatch(once, i, "S", odds) = once
    /\ \A r \in FailResponses :
            LET once == applyOutcomes(matches, r.changedBetOutcomes)
            IN applyOutcomes(once, r.changedBetOutcomes) = once
    /\ \A p \in BagToSet(polls), r \in FailResponses :
            (/\ p.pc = "post" /\ r.changedBetOutcomes # << >>
             /\ 1 \in DOMAIN matches
             /\ "oneTeamNotToScore" \in DOMAIN matches[1].odds)
            => ~ENABLED (PollResponse(p, r) /\ matches' # matches)

\* The odds update of one poll has been applied to match 1 and the next
\* poll, whose answer may carry the same update, is in flight.
C13_SameUpdateAgain ==
    \E p \in BagToSet(polls) :
        /\ p.pc = "post"
        /\ isRunning /\ selectedSport = "S"
        /\ 1 \in DOMAIN matches
        /\ "oneTeamNotToScore" \in DOMAIN matches[1].odds
        /\ matches[1].odds["oneTeamNotToScore"].oddValue = 3

\* C14: a storage failure during a flush does not abort collection.  The
\* step whose flush failed leaves isRunning, the delta token and the poll
\* timer as a Stop or the handler itself sets them (a running collector
\* stays running unless the step is Stop, a token and a timer are lost only
\* to Stop) and drops no match from the MatchStore; a running collector
\* whose initial collection ended with a failed flush has its poll timer;
\* and after a failure the next flushing handler calls the storage again.
C14_FailureDoesNotAbort ==
    /\ (flushFailed /\ isRunning /\ boots = EmptyBag /\ clearing = {})
            => cacheUpdateTimer # NoTimer
    /\ ~ENABLED (NextFail /\ flushFailed'
                 /\ ~(/\ matches' # NoMatches
                      /\ DOMAIN matches \subseteq DOMAIN matches'
                      /\ \/ /\ isRunning' = isRunning
                            /\ cacheUpdateTimer # NoTimer => cacheUpdateTimer' # NoTimer
                            /\ lastDeltaCacheNumber # NullToken
                                  => lastDeltaCacheNumber' # NullToken
                         \/ /\ isRunning /\ ~isRunning'
                            /\ matches' = matches
                            /\ cacheUpdateTimer' = NoTimer
                            /\ lastDeltaCacheNumber' = NullToken))
    /\ (everFailed /\ matches # NoMatches) =>
            /\ isRunning => ~ENABLED (Stop /\ ~(flushed' \/ flushFailed'))
            /\ \A p \in BagToSet(polls), r \in FailResponses :
                    r.changedBetOutcomes # << >>
                    => ~ENABLED (PollResponse(p, r) /\ ~(flushed' \/ flushFailed'))

\* A flush failed, the collector kept running with its store, token and
\* timer, and a later flush has written the snapshot.
C14_FlushedAfterFailure ==
    /\ everFailed /\ flushed /\ isRunning
    /\ matches # NoMatches /\ cacheUpdateTimer # NoTimer
    /\ lastDeltaCacheNumber # NullToken

\* C15: in every reachable state GetStatus reports totalMatches equal to
\* the size of the MatchStore, per-sport totals that sum to it, and for each
\* sport a with-odds count equal to the number of that sport's matches with
\* at least one populated market, whatever its canonical key.
C15_StatusCountsMarkets ==
    /\ getStatus.totalMatches = Cardinality(DOMAIN matches)
    /\ getStatus.total["B"] + getStatus.total["T"] + getStatus.total["S"]
            = getStatus.totalMatches
    /\ \A s \in ALLOWED_SPORTS :
            getStatus.withOdds[s]
                = Cardinality({i \in DOMAIN matches :
                                  matches[i].sport = s /\ DOMAIN matches[i].odds # {}})

\* C16: when the bootstrap stream has ended with an END frame whose
\* timestamp is more than 300 seconds older than the current time, the
\* resume cursor of the continuous phase is the current time; when it is at
\* most 300 seconds old, the cursor is the END timestamp itself.
C16_StaleCursorReplaced ==
    stream.pc = "continuous" =>
        /\ stream.now - stream.endTimestamp > 300 => stream.cursor = stream.now
        /\ stream.now - stream.endTimestamp <= 300 => stream.cursor = stream.endTimestamp

\* The bootstrap ended with an END timestamp 400 seconds old and the
\* continuous phase resumes from the current time.
C16_ResumedFromNow ==
    /\ stream.pc = "continuous"
    /\ stream.now - stream.endTimestamp = 400
    /\ stream.cursor = stream.now /\ stream.cursor # stream.endTimestamp

\* C17: the token a delta poll sends is null on the first poll of a session
\* and otherwise the token of a response to a poll of that same session:
\* whenever the timer of a running collector can fire, the token it would
\* send is null or was obtained by a poll of the current session.
C17_TokenOfThisSession ==
    (isRunning /\ cacheUpdateTimer # NoTimer /\ lastDeltaCacheNumber # NullToken)
        => tokenSess = session

\* C18: after Stop has returned and until the next valid Start no ingestion
\* callback modifies the MatchStore or the delta token and no snapshot is
\* flushed: a step that starts and ends with the collector idle leaves
\* MatchStore and token as they are and writes no snapshot.
C18_QuietWhileIdle ==
    [][(~isRunning /\ ~isRunning')
        => (/\ matches' = matches
            /\ lastDeltaCacheNumber' = lastDeltaCacheNumber
            /\ ~flushed')]_vars

\* C19: every snapshot flush persists the MatchStore as it was when the
\* flush started: each match the flush has written so far was written with
\* the odds it had at that moment, whatever update arrived meanwhile.
C19_SnapshotOfOneInstant ==
    \A id \in DOMAIN saving.written : saving.written[id] = saving.started[id].odds

\* C20: for every sport, bet type, outcome name and line value, phase-one
\* normalization and updateMatchOdds of the same collector write the same
\* canonical key and sub-key (or both write nothing): applied to an empty
\* OddsSet with the same odd they yield the same OddsSet.
C20_SameKeyBothPaths ==
    probe.pc = "done" => probe.normalized = probe.updated

\* C21: when a delta response carries a changed-event record of the selected
\* sport whose id is not in the MatchStore, the detailed odds of that event
\* are fetched and the match is stored with the full normalization of those
\* odds: once the detail has answered, the handler stores the match with
\* every market the normalization of the detail yields, and with exactly
\* that OddsSet when the response carries no outcome change besides.
C21_NewEventFullyNormalized ==
    \A p \in BagToSet(polls), d \in DataDetails :
        (p.pc = "detail" /\ d.ok)
        => LET id == Head(p.events).id
               full == Normalize(kind, selectedSport, d.bets, EmptyOdds)
           IN ~ENABLED (/\ PollDetail(p, d)
                        /\ \/ ~(DOMAIN full \subseteq DOMAIN matches'[id].odds)
                           \/ p.outcomes = << >> /\ matches'[id].odds # full)


\* C22: when a delta response carries a changed-event record of the selected
\* sport whose id is in the MatchStore, the stored match is patched in
\* place: its status and its league (as its name and kickoff time) take the
\* values of the record, and its OddsSet is left unchanged.  Stated for a
\* response whose only record is the one of stored event 1 with status 1 and
\* league "L1", and which carries no outcome change.
C22_ExistingEventPatched ==
    \A p \in BagToSet(polls), r \in DeltaResponses :
        (/\ p.pc = "post" /\ 1 \in DOMAIN matches
         /\ Len(r.changedEvents) = 1 /\ r.changedBetOutcomes = << >>)
        => ~ENABLED (/\ PollResponse(p, r)
                     /\ \/ matches'[1].info # [status |-> 1, league |-> "L1"]
                        \/ matches'[1].odds # matches[1].odds)

\* C23: the period of the delta-poll timer is determined by the session's
\* configured interval: 1 s for interval 1, 2 s up to 15, 5 s up to 30 and
\* 10 s above; for both collectors and for every timer that is active while
\* a session runs.
C23_PeriodFollowsInterval ==
    (isRunning /\ cacheUpdateTimer # NoTimer)
    => cacheUpdateTimer = (IF collectionInterval = 1 THEN 1000
                           ELSE IF collectionInterval <= 15 THEN 2000
                           ELSE IF collectionInterval <= 30 THEN 5000
                           ELSE 10000)

\* C24: every delta poll whose response is received and applied is followed
\* by a snapshot flush of the MatchStore before the handling of that poll
\* finishes, whether the response carried changed events, changed outcomes,
\* both or neither: with a match in the store, the handling of a response
\* cannot end in the step that received it without that step having flushed.
C24_PollEndsWithFlush ==
    \A p \in BagToSet(polls), r \in DeltaResponses :
        (p.pc = "post" /\ isRunning /\ matches # NoMatches)
        => ~ENABLED (PollResponse(p, r) /\ polls' = EmptyBag /\ ~flushed')

\* C25: a page request that fails is treated like a page that returned no
\* item.  The failed page contributes no item; no further batch follows the
\* batch it is in (the fetch is in that batch or done, and no page beyond
\* the batch was requested); and when the fetch is done every page of that
\* batch that was fetched has all its items in the result.
C25_FailedPageIsEmptyPage ==
    \A q \in DOMAIN pgAnswers :
        pgAnswers[q] = Failed =>
            /\ \A j \in 1..Len(pgAll) : pgAll[j][1] # q
            /\ q \in DOMAIN pgBatch
            /\ pgPc \in {"batch", "done"}
            /\ \A q2 \in DOMAIN pgRequested :
                    (q2 > q /\ q2 \notin DOMAIN pgBatch) => pgRequested[q2] = 0
            /\ pgPc = "done" =>
                    \A q3 \in DOMAIN pgBatch, i \in 1..pgTopN :
                        i <= pgBatch[q3] => \E j \in 1..Len(pgAll) : pgAll[j] = <<q3, i>>

\* The fetch is done after a batch in which one page failed and another
\* returned items, with pages left that were never requested.
C25_HaltedAfterFailure ==
    /\ pgPc = "done"
    /\ \E q \in DOMAIN pgBatch : pgBatch[q] = Failed
    /\ \E q \in DOMAIN pgBatch : pgBatch[q] > 0
    /\ \A q \in DOMAIN pgBatch : pgBatch[q] # 0
    /\ \E q \in DOMAIN pgRequested : q < pgTotal /\ pgRequested[q] = 0

\* C26: the fetcher probes page 0 first.  A probe answered with exactly
\* pageSize items makes the total 100, and the batch phase requests no page
\* beyond index 99; a probe answered with fewer items, with no list or with
\* a failure makes the total 1, and the batch phase requests page 0, once,
\* and no other page.
C26_ProbeSetsPageCount ==
    /\ pgPc = "probe" =>
            \A answer \in {NotList, Failed} \cup 0..pgTopN :
                ~ENABLED (/\ PgEstimate(answer)
                          /\ pgTotal' # (IF answer = pgTopN THEN 100 ELSE 1))
    /\ pgPc # "probe" =>
            /\ pgTotal \in {1, 100}
            /\ \A q \in DOMAIN pgBatch : q <= 99
            /\ \A q \in DOMAIN pgRequested : pgRequested[q] > 0 => q <= 99 /\ q < pgTotal
            /\ pgTotal = 1 =>
                    /\ \A q \in DOMAIN pgRequested : pgRequested[q] > 0 => q = 0
                    /\ pgPc = "done" => pgRequested[0] = 1 /\ DOMAIN pgBatch = {0}

\* After a full probe the batch phase has gone through every page up to
\* index 99 and is done.
C26_LastPageRequested ==
    pgPc = "done" /\ pgTotal = 100 /\ pgRequested[99] = 1 /\ pgRequested[100] = 0

\* C27: for every sequence of page answers (full, partial, empty or failed,
\* in any completion order) the paginated fetch terminates; it starts at
\* most ceil(totalPages / concurrency) batches; it requests each page at
\* most once; once a batch held an empty page it requests no page of a later
\* batch; and it returns the items of the fetched pages in ascending page
\* order, each once.
C27_FetchTerminatesInOrder ==
    /\ [](/\ \A q \in DOMAIN pgRequested : pgRequested[q] <= 1
          /\ pgCurrent % pgConc = 0 \/ pgCurrent = pgTotal
          /\ Cardinality({q \in DOMAIN pgRequested : pgRequested[q] > 0 /\ q % pgConc = 0})
                <= (pgTotal + pgConc - 1) \div pgConc
          /\ \A q \in DOMAIN pgAnswers :
                pgAnswers[q] \in {0, Failed} =>
                    /\ q \in DOMAIN pgBatch
                    /\ \A q2 \in DOMAIN pgRequested :
                            (q2 > q /\ q2 \notin DOMAIN pgBatch) => pgRequested[q2] = 0
          /\ pgPc = "done" =>
                /\ \A j, k \in 1..Len(pgAll) :
                        j < k => \/ pgAll[j][1] < pgAll[k][1]
                                 \/ pgAll[j][1] = pgAll[k][1] /\ pgAll[j][2] < pgAll[k][2]
                /\ {pgAll[j] : j \in 1..Len(pgAll)}
                        = {x \in (DOMAIN pgAnswers) \X (1..pgTopN) :
                                x[2] <= pgAnswers[x[1]]})
    /\ <>(pgPc = "done")

\* The fetch is done after two batches, the second of which held a page
\* with items and a page with none, and has returned items of both batches.
C27_HaltedInSecondBatch ==
    /\ pgPc = "done" /\ pgCurrent = pgConc /\ pgCurrent > 0
    /\ \E q \in DOMAIN pgBatch : pgBatch[q] = 0
    /\ \E q \in DOMAIN pgBatch : pgBatch[q] > 0
    /\ \E j \in 1..Len(pgAll) : pgAll[j][1] < pgCurrent

\* C28: file-mode SaveSnapshot is a read-merge-write keyed by match id.
\* Every step that flushes to the file ends with every match of the
\* MatchStore in the file with exactly its value, every entry of an id that
\* was not passed in as it was, no id twice in the file's matches list, and
\* totalMatches equal to the length of that list.
C28_FileSaveMergesById ==
    [][(flushed' /\ lastBackend' = "file") =>
            LET old == IF feedFile = NoFile THEN << >> ELSE feedFile.matches
                new == feedFile'.matches
            IN /\ \A i \in DOMAIN matches' :
                    \E j \in 1..Len(new) :
                        new[j] = [id |-> i, sport |-> matches'[i].sport,
                                  odds |-> matches'[i].odds, sess |-> matches'[i].sess,
                                  info |-> matches'[i].info]
               /\ \A j \in 1..Len(old) :
                    old[j].id \notin DOMAIN matches' => j <= Len(new) /\ new[j] = old[j]
               /\ \A j, k \in 1..Len(new) : j # k => new[j].id # new[k].id
               /\ feedFile'.totalMatches = Len(new)]_vars

\* A flush has merged match 1, with the odd a delta poll gave it, into a
\* file that held match 2 and an older match 1: match 2 is as it was and
\* match 1 is the one of this session.
C28_MergedIntoOlderFile ==
    /\ flushed /\ lastBackend = "file" /\ feedFile # NoFile
    /\ Len(feedFile.matches) = 2
    /\ feedFile.matches[1].id = 2 /\ feedFile.matches[1].sess = 0
    /\ feedFile.matches[2].id = 1 /\ feedFile.matches[2].sess = session
    /\ "oneTeamNotToScore" \in DOMAIN feedFile.matches[2].odds

\* C29: after every successful cache-mode SaveSnapshot each key it wrote
\* (the hash of every match, the index set, the metadata hash) has a
\* 24-hour expiry, and the index holds the id of every match saved.
C29_SavedKeysExpire ==
    (flushed /\ lastBackend = "redis") =>
        /\ \A i \in DOMAIN matches :
                /\ safeToString(i) \in redisIndex
                /\ safeToString(i) \in DOMAIN redisKeys
        /\ \A k \in {safeToString(i) : i \in DOMAIN matches} \cup {"index", "metadata"} :
                k \in DOMAIN redisExpiry /\ redisExpiry[k] = 86400

\* C30: a malformed changed-event or changed-outcome record is dropped
\* without changing the MatchStore, and the well-formed record after it in
\* the same response is still applied: the stored event takes the status of
\* its record, the stored odds take the new value of the outcome.
C30_MalformedDroppedRestApplied ==
    [][\A p \in BagToSet(polls), r \in DeltaResponses :
        (PollResponse(p, r) /\ 1 \in DOMAIN matches) =>
            /\ Len(r.changedEvents) = 2 =>
                /\ DOMAIN matches' = DOMAIN matches
                /\ matches'[1].info.status = r.changedEvents[2].status
            /\ (Len(r.changedBetOutcomes) = 2 /\ r.changedEvents = << >>) =>
                /\ DOMAIN matches' = DOMAIN matches
                /\ \E k \in DOMAIN matches'[1].odds :
                        matches'[1].odds[k].oddValue = r.changedBetOutcomes[2].newValue
                /\ \A k \in DOMAIN matches'[1].odds :
                        matches'[1].odds[k].oddValue = r.changedBetOutcomes[1].newValue
                            => /\ k \in DOMAIN matches[1].odds
                               /\ matches[1].odds[k] = matches'[1].odds[k]]_vars

\* C31: normalization never fails on a bet type or an outcome name that no
\* market knows: the initial collection stores every eligible event, with
\* the OddsSet its other bets alone would give, which is empty when it has no
\* other bet.
C31_UnmappedAddNoKey ==
    [][\A t \in BagToSet(boots) :
        LET Known(o) == o.betTypeName # "Dupla sansa" /\ o.name # "Q"
            Stored(e, sport, bets) ==
                /\ e.id \in DOMAIN matches'
                /\ matches'[e.id].odds =
                        Normalize(kind, sport, SelectSeq(bets, Known), EmptyOdds)
                /\ (\A i \in DOMAIN bets : ~Known(bets[i])) =>
                        matches'[e.id].odds = EmptyOdds
        IN /\ (t.pc = "results" /\ BootResults(t)) =>
                \A i \in DOMAIN t.data :
                    Eligible(t.data[i], selectedSport) =>
                        Stored(t.data[i], selectedSport, t.data[i].bets)
           /\ t.pc = "details" =>
                \A ds \in [1..Len(t.data) -> OddsDetails] :
                    BootDetails(t, ds) =>
                        \A i \in DOMAIN t.data :
                            Stored(t.data[i], t.branch,
                                   IF ds[i].ok THEN ds[i].bets ELSE t.data[i].bets)]_vars

\* An event whose bets were an unknown bet type, an unknown outcome name and
\* the draw of 'Konacan ishod' is stored with the draw alone.
C31_OnlyKnownMarketStored ==
    /\ 1 \in DOMAIN matches
    /\ DOMAIN matches[1].odds = {"fullTimeResultDraw"}
    /\ lastDeltaCacheNumber = NullToken

\* C32: a storage clear that fails does not fail Start: when the clear
\* attempt of a valid Start ends, with or without an error, the collector's
\* running flag and the result of the Start call stay as they are and one
\* initial collection is launched; and none is launched before that: the
\* launches so far are the valid Starts whose clear attempt has ended.
C32_FailedClearStillLaunches ==
    /\ [](launched + Cardinality(clearing) = session)
    /\ [][(clearing' # clearing /\ clearing' \subseteq clearing) =>
            /\ launched' = launched + 1
            /\ boots' = boots (+) SetToBag({FirstTask(selectedSport)})
            /\ isRunning' = isRunning
            /\ startResult' = startResult
            /\ startResult = "started"]_vars

\* The cache connection broke while Start awaited the clear: the clear has
\* thrown, and the collector runs with its initial collection launched.
C32_LaunchedAfterFailedClear ==
    /\ session = 1 /\ clearing = {} /\ clearedFor = 0
    /\ isRunning /\ launched = 1 /\ startResult = "started"

\* C33: in every reachable state every top-level key of every stored
\* match's OddsSet is a key the ReadableOdds interface declares, and one of
\* the keys of the match's own sport.
C33_KeysAreDeclared ==
    \A i \in DOMAIN matches : DOMAIN matches[i].odds \subseteq ReadableOdds(matches[i].sport)

\* C34: a delta poll whose request fails leaves the delta token and the
\* MatchStore as they were and neither stops the collector nor touches its
\* timer; the failed call is over, so the next tick of a running collector
\* issues a poll again, with the token the failed one carried.
C34_FailedPollChangesNothing ==
    /\ [][pollFailed' =>
            /\ lastDeltaCacheNumber' = lastDeltaCacheNumber
            /\ matches' = matches
            /\ isRunning' = isRunning
            /\ cacheUpdateTimer' = cacheUpdateTimer
            /\ BagCardinality(polls') = BagCardinality(polls) - 1]_vars
    /\ []((pollFailed /\ isRunning /\ cacheUpdateTimer # NoTimer) =>
            ENABLED (Tick(MaxOverlap) /\ polls' # polls))

\* A poll has just failed on a running collector that holds a token and a
\* match.
C34_FailedWithTokenAndMatch ==
    /\ pollFailed /\ isRunning /\ cacheUpdateTimer # NoTimer
    /\ lastDeltaCacheNumber = "t1" /\ matches # NoMatches

\* C35: at most one delta poll is in flight at any time: no tick issues a
\* poll while an earlier poll still awaits its answer or is being applied.
C35_OnePollInFlight == BagCardinality(polls) <= 1

\* C36: while the collector is running every stored match has the sport of
\* the session, selectedSport, and was stored in the current session.
C36_StoreOfThisSession ==
    isRunning =>
        \A i \in DOMAIN matches :
            matches[i].sport = selectedSport /\ matches[i].sess = session

\* C37: in every reachable state getStorageType() names the backend that
\* saves and clears use at that moment: 'redis' exactly when they go to
\* the cache, 'file' exactly when they go to the file.
C37_StorageTypeIsBackendInUse ==
    /\ storageType \in {"redis", "file"}
    /\ storageType = "redis" <=> UseRedis

\* C38: in every reachable state at most one delta-poll timer is active,
\* and an active timer is the one cacheUpdateTimer refers to, so that Stop
\* can cancel it.
C38_OneTimerAndReferenced ==
    /\ activeTimers <= 1
    /\ activeTimers = 1 <=> cacheUpdateTimer # NoTimer

\* Two initial collections were launched and both are over, with the timer
\* set up.
C38_TwoBootstrapsOneTimer ==
    /\ launched = 2 /\ boots = EmptyBag /\ clearing = {}
    /\ activeTimers = 1

\* C39: applying a changed bet outcome never adds or removes a match: on
\* every reachable MatchStore, processChangedBetOutcomes with an outcome of
\* another sport, or of an event that is not stored, leaves the store as it
\* is, and with an outcome of a stored match it changes at most the one key
\* the outcome maps to, and within a goal-line market at most the one line,
\* every other key, every other line and every other match staying as they
\* were.
C39_OutcomeChangesOneKey ==
    \A r \in OddsResponses :
        LET o == r.changedBetOutcomes[1]
            after == applyOutcomes(matches, r.changedBetOutcomes)
            old == matches[o.eventId].odds
            new == after[o.eventId].odds
            changed == {k \in DOMAIN new : k \notin DOMAIN old \/ old[k] # new[k]}
            lines == {"firstHalfUnderTotal", "firstHalfOverTotal",
                      "fullTimeUnderTotal", "fullTimeOverTotal"}
        IN /\ DOMAIN after = DOMAIN matches
           /\ (sportMapping[o.sportId] # selectedSport \/ o.eventId \notin DOMAIN matches)
                => after = matches
           /\ o.eventId \in DOMAIN matches =>
                /\ \A i \in DOMAIN matches \ {o.eventId} : after[i] = matches[i]
                /\ after[o.eventId].sport = matches[o.eventId].sport
                /\ after[o.eventId].info = matches[o.eventId].info
                /\ DOMAIN old \subseteq DOMAIN new
                /\ Cardinality(changed) <= 1
                /\ \A k \in changed \cap lines :
                        LET was == IF k \in DOMAIN old THEN old[k] ELSE EmptyOdds IN
                        /\ DOMAIN was \subseteq DOMAIN new[k]
                        /\ Cardinality({s \in DOMAIN new[k] :
                                s \notin DOMAIN was \/ was[s] # new[k][s]}) <= 1

\* A second line of the full-time under market has been applied to a stored
\* match next to the line it had.
C39_SecondLineApplied ==
    \E i \in DOMAIN matches :
        /\ "fullTimeUnderTotal" \in DOMAIN matches[i].odds
        /\ Cardinality(DOMAIN matches[i].odds["fullTimeUnderTotal"]) = 2
====
